---- MODULE Spec2Model ----
(***************************************************************************)
(* A model of lucasefe/dbml: the schema model (schema/schema.go), the DBML *)
(* generator (generator/generator.go), the table filter, the foreign-key   *)
(* deduplication and the error paths of the introspector                   *)
(* (introspect/introspect.go) and the type mapper (introspect/typemap.go). *)
(*                                                                         *)
(* A Go string is modelled as what it is, a sequence of bytes: a tuple of  *)
(* one-character strings.  Comparison, concatenation, lower-casing and     *)
(* number formatting are computed on these tuples.                         *)
(***************************************************************************)
EXTENDS Integers, Sequences, FiniteSets, TLC

----------------------------------------------------------------------------
(* Strings *)

\* The byte 0x60 (backtick), whose character a string literal cannot hold.
Backtick == "U+0060"

\* The bytes the model uses, in ascending byte order (Go compares strings
\* byte by byte).
Bytes ==
    <<"\n", " ", "(", ")", ",", "-", ".",
      "0", "1", "2", "3", "4", "5", "6", "7", "8", "9", ":", ">",
      "A", "B", "C", "D", "E", "F", "G", "H", "I", "J", "K", "L", "M",
      "N", "O", "P", "Q", "R", "S", "T", "U", "V", "W", "X", "Y", "Z",
      "[", "]", "_", Backtick,
      "a", "b", "c", "d", "e", "f", "g", "h", "i", "j", "k", "l", "m",
      "n", "o", "p", "q", "r", "s", "t", "u", "v", "w", "x", "y", "z",
      "{", "}">>

ByteRank == [c \in {Bytes[i] : i \in DOMAIN Bytes} |->
                CHOOSE i \in DOMAIN Bytes : Bytes[i] = c]

Ord(c) == ByteRank[c]

\* a < b on Go strings: lexicographic by byte, a proper prefix is smaller.
RECURSIVE StrLess(_, _)
StrLess(a, b) ==
    IF b = <<>> THEN FALSE
    ELSE IF a = <<>> THEN TRUE
    ELSE IF a[1] = b[1] THEN StrLess(Tail(a), Tail(b))
    ELSE Ord(a[1]) < Ord(b[1])

UpperCase == <<"A", "B", "C", "D", "E", "F", "G", "H", "I", "J", "K", "L", "M",
               "N", "O", "P", "Q", "R", "S", "T", "U", "V", "W", "X", "Y", "Z">>
LowerCase == <<"a", "b", "c", "d", "e", "f", "g", "h", "i", "j", "k", "l", "m",
               "n", "o", "p", "q", "r", "s", "t", "u", "v", "w", "x", "y", "z">>

LowerByte(c) ==
    IF \E i \in DOMAIN UpperCase : UpperCase[i] = c
    THEN LowerCase[CHOOSE i \in DOMAIN UpperCase : UpperCase[i] = c]
    ELSE c

\* A lowering that leaves the text as it is.
ToLowerKeep(s) == s

\* strings.ToLower
ToLower(s) == [i \in DOMAIN s |-> LowerByte(s[i])]

\* strings.HasPrefix
\* A prefix test that never succeeds.
HasPrefixNever(s, prefix) == FALSE

HasPrefix(s, prefix) ==
    Len(s) >= Len(prefix) /\ SubSeq(s, 1, Len(prefix)) = prefix

\* A join that writes the elements one after the other.
JoinBare(elems, sep) ==
    LET F[i \in 0..Len(elems)] ==
            IF i = 0 THEN <<>> ELSE F[i - 1] \o elems[i]
    IN  F[Len(elems)]

\* strings.Join
Join(elems, sep) ==
    LET F[i \in 0..Len(elems)] ==
            IF i = 0 THEN <<>>
            ELSE IF i = 1 THEN elems[1]
            ELSE F[i - 1] \o sep \o elems[i]
    IN  F[Len(elems)]

Digits == <<"0", "1", "2", "3", "4", "5", "6", "7", "8", "9">>

\* fmt.Sprintf("%d", n)
RECURSIVE FormatNat(_)
FormatNat(n) ==
    IF n < 10 THEN <<Digits[n + 1]>>
    ELSE FormatNat(n \div 10) \o <<Digits[(n % 10) + 1]>>

FormatInt(n) == IF n < 0 THEN <<"-">> \o FormatNat(0 - n) ELSE FormatNat(n)

----------------------------------------------------------------------------
(* The schema model: schema/schema.go *)

Schema(tables) == [Tables |-> tables]

Table(name, schemaName, columns, primaryKeys, indexes, references) ==
    [Name |-> name, Schema |-> schemaName, Columns |-> columns,
     PrimaryKeys |-> primaryKeys, Indexes |-> indexes,
     References |-> references]

\* DefaultValue is a *string: <<>> is nil, <<s>> points to s.
Column(name, type, nullable, defaultValue, isPrimaryKey) ==
    [Name |-> name, Type |-> type, Nullable |-> nullable,
     DefaultValue |-> defaultValue, IsPrimaryKey |-> isPrimaryKey]

Index(name, columns, unique) ==
    [Name |-> name, Columns |-> columns, Unique |-> unique]

Reference(fromT, fromS, fromCols, toT, toS, toCols, onDelete, onUpdate) ==
    [FromTable |-> fromT, FromSchema |-> fromS, FromColumns |-> fromCols,
     ToTable |-> toT, ToSchema |-> toS, ToColumns |-> toCols,
     OnDelete |-> onDelete, OnUpdate |-> onUpdate]

----------------------------------------------------------------------------
(* sort.Slice and the less functions handed to it *)

\* A qualification that writes the schema name whenever there is one.
GetQualifiedTableNameNonEmpty(tableName, schemaName) ==
    IF schemaName # <<>>
    THEN schemaName \o <<".">> \o tableName
    ELSE tableName

GetQualifiedTableName(tableName, schemaName) ==
    IF schemaName # <<>> /\ schemaName # <<"p","u","b","l","i","c">>
    THEN schemaName \o <<".">> \o tableName
    ELSE tableName

\* A comparison that never orders two columns: the order of the model is
\* kept.
ColumnLessNever(a, b) == FALSE

ColumnLess(a, b) == StrLess(a.Name, b.Name)

IndexLess(a, b) == StrLess(a.Name, b.Name)

\* A comparison that forgets the schema name.
TableLessByName(a, b) == StrLess(a.Name, b.Name)

\* A comparison that never orders two tables: the input order is kept.
TableLessNever(a, b) == FALSE

TableLess(a, b) ==
    IF a.Schema # b.Schema THEN StrLess(a.Schema, b.Schema)
    ELSE StrLess(a.Name, b.Name)

ReferenceLess(refI, refJ) ==
    LET fromTableI == GetQualifiedTableName(refI.FromTable, refI.FromSchema)
        fromTableJ == GetQualifiedTableName(refJ.FromTable, refJ.FromSchema)
        toTableI == GetQualifiedTableName(refI.ToTable, refI.ToSchema)
        toTableJ == GetQualifiedTableName(refJ.ToTable, refJ.ToSchema)
    IN  IF fromTableI # fromTableJ THEN StrLess(fromTableI, fromTableJ)
        ELSE IF /\ Len(refI.FromColumns) > 0 /\ Len(refJ.FromColumns) > 0
                /\ refI.FromColumns[1] # refJ.FromColumns[1]
        THEN StrLess(refI.FromColumns[1], refJ.FromColumns[1])
        ELSE IF toTableI # toTableJ THEN StrLess(toTableI, toTableJ)
        ELSE IF Len(refI.ToColumns) > 0 /\ Len(refJ.ToColumns) > 0
        THEN StrLess(refI.ToColumns[1], refJ.ToColumns[1])
        ELSE FALSE

\* A qualification of the root package that leaves out only an empty schema
\* name.
getQualifiedTableNameWithPublic(tableName, schemaName) ==
    IF schemaName # <<>>
    THEN schemaName \o <<".">> \o tableName
    ELSE tableName

\* generator.go of the root package: getQualifiedTableName and the less
\* functions of GenerateDBML and of its generateTable.
getQualifiedTableName(tableName, schemaName) ==
    IF schemaName # <<>> /\ schemaName # <<"p","u","b","l","i","c">>
    THEN schemaName \o <<".">> \o tableName
    ELSE tableName

dbml_TableLess(a, b) ==
    IF a.Schema # b.Schema THEN StrLess(a.Schema, b.Schema)
    ELSE StrLess(a.Name, b.Name)

dbml_ColumnLess(a, b) == StrLess(a.Name, b.Name)

dbml_IndexLess(a, b) == StrLess(a.Name, b.Name)

dbml_ReferenceLess(refI, refJ) ==
    LET fromTableI == getQualifiedTableName(refI.FromTable, refI.FromSchema)
        fromTableJ == getQualifiedTableName(refJ.FromTable, refJ.FromSchema)
        toTableI == getQualifiedTableName(refI.ToTable, refI.ToSchema)
        toTableJ == getQualifiedTableName(refJ.ToTable, refJ.ToSchema)
    IN  IF fromTableI # fromTableJ THEN StrLess(fromTableI, fromTableJ)
        ELSE IF /\ Len(refI.FromColumns) > 0 /\ Len(refJ.FromColumns) > 0
                /\ refI.FromColumns[1] # refJ.FromColumns[1]
        THEN StrLess(refI.FromColumns[1], refJ.FromColumns[1])
        ELSE IF toTableI # toTableJ THEN StrLess(toTableI, toTableJ)
        ELSE IF Len(refI.ToColumns) > 0 /\ Len(refJ.ToColumns) > 0
        THEN StrLess(refI.ToColumns[1], refJ.ToColumns[1])
        ELSE FALSE

\* The less function of a call of sort.Slice (or of sort.Strings), by name.
LessBy(less, a, b) ==
    CASE less = "TableLess" -> TableLess(a, b)
      [] less = "ColumnLess" -> ColumnLess(a, b)
      [] less = "IndexLess" -> IndexLess(a, b)
      [] less = "ReferenceLess" -> ReferenceLess(a, b)
      [] less = "StrLess" -> StrLess(a, b)

\* One pass of the inner loop of insertion sort: x, appended to the sorted
\* prefix p, is swapped with its left neighbour as long as less(x, neighbour).
Insert(p, x, less) ==
    LET stop == {k \in 1..Len(p) : ~LessBy(less, x, p[k])}
        k == IF stop = {} THEN 0 ELSE CHOOSE m \in stop : \A n \in stop : n <= m
    IN  SubSeq(p, 1, k) \o <<x>> \o SubSeq(p, k + 1, Len(p))

\* sort.Slice(s, less).  For slices of at most 12 elements the Go runtime
\* runs insertion sort, which is what every slice of this model gets.
SortSlice(s, less) ==
    LET F[i \in 0..Len(s)] ==
            IF i = 0 THEN <<>> ELSE Insert(F[i - 1], s[i], less)
    IN  F[Len(s)]

----------------------------------------------------------------------------
(* generator/generator.go *)

\* A generateColumn that writes not null for primary-key columns too.
generateColumnNotNullOnPk(builder, column) ==
    LET pk == IF column.IsPrimaryKey THEN << <<"p","k">> >> ELSE <<>>
        notNull == IF ~column.Nullable THEN << <<"n","o","t"," ","n","u","l","l">> >> ELSE <<>>
        def == IF column.DefaultValue # <<>>
               THEN LET defaultVal == column.DefaultValue[1]
                    IN  IF HasPrefix(defaultVal, <<"n","e","x","t","v","a","l","(">>)
                        THEN << <<"i","n","c","r","e","m","e","n","t">> >>
                        ELSE << <<"d","e","f","a","u","l","t",":"," ",Backtick>> \o defaultVal \o <<Backtick>> >>
               ELSE <<>>
        attributes == pk \o notNull \o def
    IN  builder \o <<" "," ">> \o column.Name \o <<" ">> \o column.Type
          \o (IF Len(attributes) > 0
              THEN <<" ","[">> \o Join(attributes, <<","," ">>) \o <<"]">>
              ELSE <<>>)
          \o <<"\n">>

generateColumn(builder, column) ==
    LET pk == IF column.IsPrimaryKey THEN << <<"p","k">> >> ELSE <<>>
        notNull == IF ~column.Nullable /\ ~column.IsPrimaryKey
                   THEN << <<"n","o","t"," ","n","u","l","l">> >> ELSE <<>>
        def == IF column.DefaultValue # <<>>
               THEN LET defaultVal == column.DefaultValue[1]
                    IN  IF HasPrefix(defaultVal, <<"n","e","x","t","v","a","l","(">>)
                        THEN << <<"i","n","c","r","e","m","e","n","t">> >>
                        ELSE << <<"d","e","f","a","u","l","t",":"," ",Backtick>> \o defaultVal \o <<Backtick>> >>
               ELSE <<>>
        attributes == pk \o notNull \o def
    IN  builder \o <<" "," ">> \o column.Name \o <<" ">> \o column.Type
          \o (IF Len(attributes) > 0
              THEN <<" ","[">> \o Join(attributes, <<","," ">>) \o <<"]">>
              ELSE <<>>)
          \o <<"\n">>

\* An index line that writes every one-column index as a bare name.
generateIndexLineBareName(index) ==
    IF Len(index.Columns) = 1
    THEN <<" "," "," "," ">> \o index.Columns[1]
           \o (IF index.Unique THEN <<" ","[","u","n","i","q","u","e","]">> ELSE <<>>) \o <<"\n">>
    ELSE <<" "," "," "," ","(">> \o Join(index.Columns, <<","," ">>) \o <<")">>
           \o (IF index.Unique THEN <<" ","[","u","n","i","q","u","e","]">> ELSE <<>>) \o <<"\n">>

generateIndexLine(index) ==
    IF index.Unique
    THEN IF Len(index.Columns) = 1
         THEN <<" "," "," "," ","(">> \o index.Columns[1] \o <<")"," ","[","u","n","i","q","u","e","]","\n">>
         ELSE <<" "," "," "," ","(">> \o Join(index.Columns, <<","," ">>) \o <<")"," ","[","u","n","i","q","u","e","]","\n">>
    ELSE IF Len(index.Columns) = 1
         THEN <<" "," "," "," ">> \o index.Columns[1] \o <<"\n">>
         ELSE <<" "," "," "," ","(">> \o Join(index.Columns, <<","," ">>) \o <<")","\n">>

generateIndexes(builder, indexes) ==
    LET F[i \in 0..Len(indexes)] ==
            IF i = 0 THEN builder \o <<" "," ","i","n","d","e","x","e","s"," ","{","\n">>
            ELSE F[i - 1] \o generateIndexLine(indexes[i])
    IN  F[Len(indexes)] \o <<" "," ","}","\n">>

generateTable(builder, table) ==
    LET tableName == IF table.Schema # <<>> /\ table.Schema # <<"p","u","b","l","i","c">>
                     THEN table.Schema \o <<".">> \o table.Name
                     ELSE table.Name
        sortedColumns == SortSlice(table.Columns, "ColumnLess")
        C[i \in 0..Len(sortedColumns)] ==
            IF i = 0 THEN builder \o <<"T","a","b","l","e"," ">> \o tableName \o <<" ","{","\n">>
            ELSE generateColumn(C[i - 1], sortedColumns[i])
        withColumns == C[Len(sortedColumns)]
        withIndexes ==
            IF Len(table.Indexes) > 0
            THEN generateIndexes(withColumns \o <<"\n">>,
                                 SortSlice(table.Indexes, "IndexLess"))
            ELSE withColumns
    IN  withIndexes \o <<"}","\n">>

generateReference(builder, ref) ==
    LET fromTable == GetQualifiedTableName(ref.FromTable, ref.FromSchema)
        toTable == GetQualifiedTableName(ref.ToTable, ref.ToSchema)
        fromRef == IF Len(ref.FromColumns) = 1
                   THEN fromTable \o <<".">> \o ref.FromColumns[1]
                   ELSE fromTable \o <<".","(">> \o Join(ref.FromColumns, <<","," ">>)
                          \o <<")">>
        toRef == IF Len(ref.ToColumns) = 1
                 THEN toTable \o <<".">> \o ref.ToColumns[1]
                 ELSE toTable \o <<".","(">> \o Join(ref.ToColumns, <<","," ">>) \o <<")">>
        del == IF ref.OnDelete # <<"N","O"," ","A","C","T","I","O","N">> /\ ref.OnDelete # <<>>
               THEN << <<"d","e","l","e","t","e",":"," ">> \o ToLower(ref.OnDelete) >> ELSE <<>>
        upd == IF ref.OnUpdate # <<"N","O"," ","A","C","T","I","O","N">> /\ ref.OnUpdate # <<>>
               THEN << <<"u","p","d","a","t","e",":"," ">> \o ToLower(ref.OnUpdate) >> ELSE <<>>
        refAttributes == del \o upd
    IN  builder \o <<"R","e","f",":"," ">> \o fromRef \o <<" ",">"," ">> \o toRef
          \o (IF Len(refAttributes) > 0
              THEN <<" ","[">> \o Join(refAttributes, <<","," ">>) \o <<"]">>
              ELSE <<>>)
          \o <<"\n">>

\* The tables as Generate walks them: a sorted copy of s.Tables.
SortedTables(s) == SortSlice(s.Tables, "TableLess")

\* allReferences before it is sorted: the References of every table, appended in
\* the order of the sorted tables.
CollectReferences(sortedTables) ==
    LET F[i \in 0..Len(sortedTables)] ==
            IF i = 0 THEN <<>> ELSE F[i - 1] \o sortedTables[i].References
    IN  F[Len(sortedTables)]

\* The Ref lines, written to builder in the sorted order of allReferences.
GenerateReferences(builder, sortedTables) ==
    LET allReferences == SortSlice(CollectReferences(sortedTables),
                                   "ReferenceLess")
        F[i \in 0..Len(allReferences)] ==
            IF i = 0 THEN builder
            ELSE generateReference(F[i - 1], allReferences[i])
    IN  F[Len(allReferences)]

\* The table blocks, each followed by a blank line.
GenerateTables(builder, sortedTables) ==
    LET F[i \in 0..Len(sortedTables)] ==
            IF i = 0 THEN builder
            ELSE generateTable(F[i - 1], sortedTables[i]) \o <<"\n">>
    IN  F[Len(sortedTables)]

\* The text of Generate, written to a builder that already holds builder.
GenerateInto(builder, s) ==
    LET sortedTables == SortedTables(s)
    IN  GenerateReferences(GenerateTables(builder, sortedTables), sortedTables)

\* var builder strings.Builder: each call starts from an empty builder.
Generate(s) == GenerateInto(<<>>, s)


\* A Generate that sorts s.Tables itself instead of a copy.
GenerateCallInPlace(s) ==
    [out |-> Generate(s), s |-> Schema(SortedTables(s))]

\* What a call of Generate returns and the Schema it leaves to the caller:
\* every sort.Slice of Generate and generateTable works on a copy
\* (make + copy), so s.Tables and the slices of its tables stay as they were.
GenerateCall(s) == [out |-> Generate(s), s |-> s]

\* GenerateString: string(result) and a nil error.  The one return statement
\* of Generate returns a nil error, so the branch that hands an error of
\* Generate on is never taken.
GenerateString(s) == [text |-> Generate(s), err |-> <<>>]

----------------------------------------------------------------------------
(* sort.Slice in the root package, with the less functions of generator.go *)

dbml_LessBy(less, a, b) ==
    CASE less = "TableLess" -> dbml_TableLess(a, b)
      [] less = "ColumnLess" -> dbml_ColumnLess(a, b)
      [] less = "IndexLess" -> dbml_IndexLess(a, b)
      [] less = "ReferenceLess" -> dbml_ReferenceLess(a, b)

dbml_Insert(p, x, less) ==
    LET stop == {k \in 1..Len(p) : ~dbml_LessBy(less, x, p[k])}
        k == IF stop = {} THEN 0 ELSE CHOOSE m \in stop : \A n \in stop : n <= m
    IN  SubSeq(p, 1, k) \o <<x>> \o SubSeq(p, k + 1, Len(p))

dbml_SortSlice(s, less) ==
    LET F[i \in 0..Len(s)] ==
            IF i = 0 THEN <<>> ELSE dbml_Insert(F[i - 1], s[i], less)
    IN  F[Len(s)]

----------------------------------------------------------------------------
(* generator.go of the root package *)

dbml_generateColumn(builder, column) ==
    LET line == builder \o <<" "," ">> \o column.Name \o <<" ">> \o column.Type
        pk == IF column.IsPrimaryKey THEN << <<"p","k">> >> ELSE <<>>
        notNull == IF ~column.Nullable /\ ~column.IsPrimaryKey
                   THEN << <<"n","o","t"," ","n","u","l","l">> >> ELSE <<>>
        def == IF column.DefaultValue # <<>>
               THEN LET defaultVal == column.DefaultValue[1]
                    IN  IF HasPrefix(defaultVal, <<"n","e","x","t","v","a","l","(">>)
                        THEN << <<"i","n","c","r","e","m","e","n","t">> >>
                        ELSE << <<"d","e","f","a","u","l","t",":"," ">> \o <<Backtick>> \o defaultVal
                                  \o <<Backtick>> >>
               ELSE <<>>
        attributes == pk \o notNull \o def
    IN  (IF Len(attributes) > 0
         THEN line \o <<" ","[">> \o Join(attributes, <<","," ">>) \o <<"]">>
         ELSE line) \o <<"\n">>

dbml_generateIndexes(builder, indexes) ==
    LET written(index) ==
            IF index.Unique
            THEN IF Len(index.Columns) = 1
                 THEN <<" "," "," "," ","(">> \o index.Columns[1] \o <<")"," ","[","u","n","i","q","u","e","]">> \o <<"\n">>
                 ELSE <<" "," "," "," ","(">> \o Join(index.Columns, <<","," ">>) \o <<")"," ","[","u","n","i","q","u","e","]">> \o <<"\n">>
            ELSE IF Len(index.Columns) = 1
                 THEN <<" "," "," "," ">> \o index.Columns[1] \o <<"\n">>
                 ELSE <<" "," "," "," ","(">> \o Join(index.Columns, <<","," ">>) \o <<")">> \o <<"\n">>
        F[i \in 0..Len(indexes)] ==
            IF i = 0 THEN builder \o <<" "," ","i","n","d","e","x","e","s"," ","{">> \o <<"\n">>
            ELSE F[i - 1] \o written(indexes[i])
    IN  F[Len(indexes)] \o <<" "," ","}">> \o <<"\n">>

dbml_generateTable(builder, table) ==
    LET tableName == IF table.Schema # <<>> /\ table.Schema # <<"p","u","b","l","i","c">>
                     THEN table.Schema \o <<".">> \o table.Name
                     ELSE table.Name
        sortedColumns == dbml_SortSlice(table.Columns, "ColumnLess")
        C[i \in 0..Len(sortedColumns)] ==
            IF i = 0 THEN builder \o <<"T","a","b","l","e"," ">> \o tableName \o <<" ","{">> \o <<"\n">>
            ELSE dbml_generateColumn(C[i - 1], sortedColumns[i])
        body == C[Len(sortedColumns)]
    IN  (IF Len(table.Indexes) > 0
         THEN dbml_generateIndexes(body \o <<"\n">>,
                                   dbml_SortSlice(table.Indexes, "IndexLess"))
         ELSE body) \o <<"}">> \o <<"\n">>

dbml_generateReference(builder, ref) ==
    LET fromTable == getQualifiedTableName(ref.FromTable, ref.FromSchema)
        toTable == getQualifiedTableName(ref.ToTable, ref.ToSchema)
        fromRef == IF Len(ref.FromColumns) = 1
                   THEN fromTable \o <<".">> \o ref.FromColumns[1]
                   ELSE fromTable \o <<".","(">> \o Join(ref.FromColumns, <<","," ">>) \o <<")">>
        toRef == IF Len(ref.ToColumns) = 1
                 THEN toTable \o <<".">> \o ref.ToColumns[1]
                 ELSE toTable \o <<".","(">> \o Join(ref.ToColumns, <<","," ">>) \o <<")">>
        line == builder \o <<"R","e","f",":"," ">> \o fromRef \o <<" ",">"," ">> \o toRef
        onDelete == IF ref.OnDelete # <<"N","O"," ","A","C","T","I","O","N">> /\ ref.OnDelete # <<>>
                    THEN << <<"d","e","l","e","t","e",":"," ">> \o ToLower(ref.OnDelete) >> ELSE <<>>
        onUpdate == IF ref.OnUpdate # <<"N","O"," ","A","C","T","I","O","N">> /\ ref.OnUpdate # <<>>
                    THEN << <<"u","p","d","a","t","e",":"," ">> \o ToLower(ref.OnUpdate) >> ELSE <<>>
        refAttributes == onDelete \o onUpdate
    IN  (IF Len(refAttributes) > 0
         THEN line \o <<" ","[">> \o Join(refAttributes, <<","," ">>) \o <<"]">>
         ELSE line) \o <<"\n">>

GenerateDBML(s) ==
    LET sortedTables == dbml_SortSlice(s.Tables, "TableLess")
        T[i \in 0..Len(sortedTables)] ==
            IF i = 0 THEN <<>>
            ELSE dbml_generateTable(T[i - 1], sortedTables[i]) \o <<"\n">>
        A[i \in 0..Len(sortedTables)] ==
            IF i = 0 THEN <<>> ELSE A[i - 1] \o sortedTables[i].References
        allReferences == dbml_SortSlice(A[Len(sortedTables)], "ReferenceLess")
        R[i \in 0..Len(allReferences)] ==
            IF i = 0 THEN T[Len(sortedTables)]
            ELSE dbml_generateReference(R[i - 1], allReferences[i])
    IN  R[Len(allReferences)]

\* dbml.go: return []byte(GenerateDBML(schema))
GenerateDBMLBytes(s) == GenerateDBML(s)

----------------------------------------------------------------------------
(* schema.FilterTables *)

\* excludeMap[table.Name]: the name is a key of the map built from the list.
Excluded(excludeTables, name) ==
    \E i \in DOMAIN excludeTables : excludeTables[i] = name

\* A filter that compares the names without regard to letter case.
FilterTablesFold(s, excludeTables) ==
    Schema(SelectSeq(s.Tables,
                     LAMBDA table :
                        ~\E i \in DOMAIN excludeTables :
                            ToLower(excludeTables[i]) = ToLower(table.Name)))

\* A filter that also takes from the kept tables the References to a table
\* it removes.
FilterTablesWithReferences(s, excludeTables) ==
    Schema([i \in DOMAIN SelectSeq(s.Tables,
                             LAMBDA kept : ~Excluded(excludeTables, kept.Name)) |->
              LET kept == SelectSeq(s.Tables,
                             LAMBDA t : ~Excluded(excludeTables, t.Name))[i]
              IN  [kept EXCEPT !.References =
                      SelectSeq(@, LAMBDA ref : ~Excluded(excludeTables, ref.ToTable))]])

FilterTables(s, excludeTables) ==
    Schema(SelectSeq(s.Tables,
                     LAMBDA table : ~Excluded(excludeTables, table.Name)))

\* What a call of FilterTables returns and the Schema it leaves to the caller
\* (filteredTables is a fresh slice; s is only read).
FilterTablesCall(s, excludeTables) ==
    [result |-> FilterTables(s, excludeTables), s |-> s]

\* dbml.FilterTables of the root package: the loop over schema.Tables.
dbml_FilterTables(s, excludeTables) ==
    LET filteredTables[i \in 0..Len(s.Tables)] ==
            IF i = 0 THEN <<>>
            ELSE IF Excluded(excludeTables, s.Tables[i].Name)
            THEN filteredTables[i - 1]
            ELSE Append(filteredTables[i - 1], s.Tables[i])
    IN  Schema(filteredTables[Len(s.Tables)])

\* s.Tables where s is a *Schema: the selector dereferences s, and on a nil
\* s the Go run time panics (invalid memory address or nil pointer
\* dereference).  Generate reads s.Tables at generator.go:28, FilterTables at
\* schema.go:84 and dbml.go:209, none after a test of s against nil.
NilDereference(ptr) == ptr = <<>>

----------------------------------------------------------------------------
(* introspect/introspect.go: getForeignKeys *)

\* One row of the foreign-key query, as rows.Scan reads it.
ForeignKeyRow(columnName, toSchema, toTable, toColumn, deleteRule, updateRule, ordinalPosition) ==
    [column_name |-> columnName,
     foreign_table_schema |-> toSchema,
     foreign_table_name |-> toTable,
     foreign_column_name |-> toColumn,
     delete_rule |-> deleteRule,
     update_rule |-> updateRule,
     ordinal_position |-> ordinalPosition]

\* A Reference built from one row that does not name the schema it is from.
ScanReferenceUnqualified(schemaName, tableName, row) ==
    Reference(tableName, <<>>, << row.column_name >>,
              row.foreign_table_name, row.foreign_table_schema,
              << row.foreign_column_name >>,
              row.delete_rule, row.update_rule)

\* The Reference getForeignKeys builds from one row.
ScanReference(schemaName, tableName, row) ==
    Reference(tableName, schemaName, << row.column_name >>,
              row.foreign_table_name, row.foreign_table_schema,
              << row.foreign_column_name >>,
              row.delete_rule, row.update_rule)

\* key := fmt.Sprintf("%s.%s.%s->%s.%s.%s", ...)
ReferenceKey(schemaName, tableName, row) ==
    schemaName \o <<".">> \o tableName \o <<".">> \o row.column_name
      \o <<"-",">">> \o row.foreign_table_schema \o <<".">> \o row.foreign_table_name
      \o <<".">> \o row.foreign_column_name

NoAction == <<"N","O"," ","A","C","T","I","O","N">>

\* A merge that keeps the rule of the row read first.
MergeActionKeepFirst(existing, incoming) == existing

\* The rule an existing Reference keeps when a second row of its key is read.
MergeAction(existing, incoming) ==
    IF incoming # NoAction /\ incoming # <<>> /\ existing = NoAction
    THEN incoming
    ELSE existing

\* referenceMap after the row is read.
PutReference(referenceMap, schemaName, tableName, row) ==
    LET ref == ScanReference(schemaName, tableName, row)
        key == ReferenceKey(schemaName, tableName, row)
    IN  IF key \in DOMAIN referenceMap
        THEN [referenceMap EXCEPT
                 ![key] = [@ EXCEPT
                              !.OnDelete = MergeAction(@, ref.OnDelete),
                              !.OnUpdate = MergeAction(@, ref.OnUpdate)]]
        ELSE (key :> ref) @@ referenceMap

\* referenceMap after the loop over rows.Next().
ReadForeignKeyRows(schemaName, tableName, rows) ==
    LET F[i \in 0..Len(rows)] ==
            IF i = 0 THEN <<>>
            ELSE PutReference(F[i - 1], schemaName, tableName, rows[i])
    IN  F[Len(rows)]

\* The orders in which "for key := range referenceMap" can yield the keys.
RangeOrders(referenceMap) ==
    LET keys == DOMAIN referenceMap
    IN  {s \in [1..Cardinality(keys) -> keys] :
            \A i, j \in DOMAIN s : s[i] = s[j] => i = j}

\* The keys are sorted and the References appended in the order of their keys.
SortedReferences(referenceMap, keys) ==
    LET sorted == SortSlice(keys, "StrLess")
    IN  [i \in DOMAIN sorted |-> referenceMap[sorted[i]]]

----------------------------------------------------------------------------
(* introspect/typemap.go *)

\* sql.NullInt64
NullInt64(int64, valid) == [Int64 |-> int64, Valid |-> valid]

\* var DefaultTypeMappings = map[string]string{...}
DefaultTypeMappings ==
    LET pairs == {
          <<<<"i","n","t","e","g","e","r">>, <<"i","n","t">>>>,
          <<<<"i","n","t","4">>, <<"i","n","t">>>>,
          <<<<"b","i","g","i","n","t">>, <<"b","i","g","i","n","t">>>>,
          <<<<"i","n","t","8">>, <<"b","i","g","i","n","t">>>>,
          <<<<"s","m","a","l","l","i","n","t">>, <<"s","m","a","l","l","i","n","t">>>>,
          <<<<"i","n","t","2">>, <<"s","m","a","l","l","i","n","t">>>>,
          <<<<"b","o","o","l","e","a","n">>, <<"b","o","o","l","e","a","n">>>>,
          <<<<"b","o","o","l">>, <<"b","o","o","l","e","a","n">>>>,
          <<<<"t","e","x","t">>, <<"t","e","x","t">>>>,
          <<<<"c","h","a","r","a","c","t","e","r"," ","v","a","r","y","i","n","g">>, <<"v","a","r","c","h","a","r">>>>,
          <<<<"v","a","r","c","h","a","r">>, <<"v","a","r","c","h","a","r">>>>,
          <<<<"c","h","a","r","a","c","t","e","r">>, <<"c","h","a","r">>>>,
          <<<<"c","h","a","r">>, <<"c","h","a","r">>>>,
          <<<<"n","u","m","e","r","i","c">>, <<"d","e","c","i","m","a","l">>>>,
          <<<<"d","e","c","i","m","a","l">>, <<"d","e","c","i","m","a","l">>>>,
          <<<<"r","e","a","l">>, <<"f","l","o","a","t">>>>,
          <<<<"f","l","o","a","t","4">>, <<"f","l","o","a","t">>>>,
          <<<<"d","o","u","b","l","e"," ","p","r","e","c","i","s","i","o","n">>, <<"d","o","u","b","l","e">>>>,
          <<<<"f","l","o","a","t","8">>, <<"d","o","u","b","l","e">>>>,
          <<<<"t","i","m","e","s","t","a","m","p"," ","w","i","t","h","o","u","t"," ","t","i","m","e"," ","z","o","n","e">>, <<"t","i","m","e","s","t","a","m","p">>>>,
          <<<<"t","i","m","e","s","t","a","m","p">>, <<"t","i","m","e","s","t","a","m","p">>>>,
          <<<<"t","i","m","e","s","t","a","m","p"," ","w","i","t","h"," ","t","i","m","e"," ","z","o","n","e">>, <<"t","i","m","e","s","t","a","m","p","t","z">>>>,
          <<<<"t","i","m","e","s","t","a","m","p","t","z">>, <<"t","i","m","e","s","t","a","m","p","t","z">>>>,
          <<<<"d","a","t","e">>, <<"d","a","t","e">>>>,
          <<<<"t","i","m","e"," ","w","i","t","h","o","u","t"," ","t","i","m","e"," ","z","o","n","e">>, <<"t","i","m","e">>>>,
          <<<<"t","i","m","e">>, <<"t","i","m","e">>>>,
          <<<<"t","i","m","e"," ","w","i","t","h"," ","t","i","m","e"," ","z","o","n","e">>, <<"t","i","m","e","t","z">>>>,
          <<<<"t","i","m","e","t","z">>, <<"t","i","m","e","t","z">>>>,
          <<<<"u","u","i","d">>, <<"u","u","i","d">>>>,
          <<<<"j","s","o","n">>, <<"j","s","o","n">>>>,
          <<<<"j","s","o","n","b">>, <<"j","s","o","n","b">>>>,
          <<<<"b","y","t","e","a">>, <<"b","i","n","a","r","y">>>> }
    IN  [k \in {p[1] : p \in pairs} |-> (CHOOSE p \in pairs : p[1] = k)[2]]

TrimPrefix(s, prefix) ==
    IF HasPrefix(s, prefix) THEN SubSeq(s, Len(prefix) + 1, Len(s)) ELSE s

\* A NormalizeTypeName whose default case hands the name back.
NormalizeTypeNameKeepUnknown(typeName) ==
    CASE ToLower(typeName) \in
            {<<"a","d","d","r","e","s","s">>, <<"c","o","n","t","a","c","t","_","m","e","t","h","o","d">>, <<"o","f","f","e","r","i","n","g">>, <<"p","r","o","v","i","d","e","r">>,
             <<"c","a","r","r","i","e","r">>, <<"d","i","r","e","c","t","i","o","n">>, <<"s","t","a","t","u","s">>, <<"b","u","s","i","n","e","s","s","_","t","y","p","e">>,
             <<"i","n","d","u","s","t","r","y">>, <<"c","t","a">>}
           -> <<"t","e","x","t">>
      [] OTHER -> typeName

NormalizeTypeName(typeName) ==
    CASE ToLower(typeName) \in
            {<<"a","d","d","r","e","s","s">>, <<"c","o","n","t","a","c","t","_","m","e","t","h","o","d">>, <<"o","f","f","e","r","i","n","g">>, <<"p","r","o","v","i","d","e","r">>,
             <<"c","a","r","r","i","e","r">>, <<"d","i","r","e","c","t","i","o","n">>, <<"s","t","a","t","u","s">>, <<"b","u","s","i","n","e","s","s","_","t","y","p","e">>,
             <<"i","n","d","u","s","t","r","y">>, <<"c","t","a">>}
           -> <<"t","e","x","t">>
      [] OTHER -> <<"t","e","x","t">>

NormalizeCustomType(typeName) ==
    IF HasPrefix(typeName, <<"_">>)
    THEN LET baseType == TrimPrefix(typeName, <<"_">>)
         IN  NormalizeTypeName(baseType)
    ELSE NormalizeTypeName(typeName)

\* The cases "character varying", "varchar" and "character", "char".
CharType(token, charMaxLength) ==
    IF charMaxLength.Valid
    THEN token \o <<"(">> \o FormatInt(charMaxLength.Int64) \o <<")">>
    ELSE token

\* A case "numeric", "decimal" that looks at the precision only.
DecimalTypePrecisionOnly(numericPrecision, numericScale) ==
    IF numericPrecision.Valid
    THEN <<"d","e","c","i","m","a","l","(">> \o FormatInt(numericPrecision.Int64) \o <<",">>
           \o FormatInt(numericScale.Int64) \o <<")">>
    ELSE <<"d","e","c","i","m","a","l">>

\* The case "numeric", "decimal".
DecimalType(numericPrecision, numericScale) ==
    IF numericPrecision.Valid /\ numericScale.Valid
    THEN <<"d","e","c","i","m","a","l","(">> \o FormatInt(numericPrecision.Int64) \o <<",">>
           \o FormatInt(numericScale.Int64) \o <<")">>
    ELSE <<"d","e","c","i","m","a","l">>

MapPostgreSQLTypeToDBML(dataType, udtName, charMaxLength, numericPrecision, numericScale) ==
    LET lower == ToLower(dataType)
    IN  CASE lower \in {<<"i","n","t","e","g","e","r">>, <<"i","n","t","4">>} -> <<"i","n","t">>
          [] lower \in {<<"b","i","g","i","n","t">>, <<"i","n","t","8">>} -> <<"b","i","g","i","n","t">>
          [] lower \in {<<"s","m","a","l","l","i","n","t">>, <<"i","n","t","2">>} -> <<"s","m","a","l","l","i","n","t">>
          [] lower \in {<<"b","o","o","l","e","a","n">>, <<"b","o","o","l">>} -> <<"b","o","o","l","e","a","n">>
          [] lower \in {<<"c","h","a","r","a","c","t","e","r"," ","v","a","r","y","i","n","g">>, <<"v","a","r","c","h","a","r">>}
               -> CharType(<<"v","a","r","c","h","a","r">>, charMaxLength)
          [] lower \in {<<"c","h","a","r","a","c","t","e","r">>, <<"c","h","a","r">>}
               -> CharType(<<"c","h","a","r">>, charMaxLength)
          [] lower = <<"t","e","x","t">> -> <<"t","e","x","t">>
          [] lower \in {<<"n","u","m","e","r","i","c">>, <<"d","e","c","i","m","a","l">>}
               -> DecimalType(numericPrecision, numericScale)
          [] lower \in {<<"r","e","a","l">>, <<"f","l","o","a","t","4">>} -> <<"f","l","o","a","t">>
          [] lower \in {<<"d","o","u","b","l","e"," ","p","r","e","c","i","s","i","o","n">>, <<"f","l","o","a","t","8">>} -> <<"d","o","u","b","l","e">>
          [] lower \in {<<"t","i","m","e","s","t","a","m","p"," ","w","i","t","h","o","u","t"," ","t","i","m","e"," ","z","o","n","e">>, <<"t","i","m","e","s","t","a","m","p">>}
               -> <<"t","i","m","e","s","t","a","m","p">>
          [] lower \in {<<"t","i","m","e","s","t","a","m","p"," ","w","i","t","h"," ","t","i","m","e"," ","z","o","n","e">>, <<"t","i","m","e","s","t","a","m","p","t","z">>}
               -> <<"t","i","m","e","s","t","a","m","p","t","z">>
          [] lower = <<"d","a","t","e">> -> <<"d","a","t","e">>
          [] lower \in {<<"t","i","m","e"," ","w","i","t","h","o","u","t"," ","t","i","m","e"," ","z","o","n","e">>, <<"t","i","m","e">>} -> <<"t","i","m","e">>
          [] lower \in {<<"t","i","m","e"," ","w","i","t","h"," ","t","i","m","e"," ","z","o","n","e">>, <<"t","i","m","e","t","z">>} -> <<"t","i","m","e","t","z">>
          [] lower = <<"u","u","i","d">> -> <<"u","u","i","d">>
          [] lower = <<"j","s","o","n">> -> <<"j","s","o","n">>
          [] lower = <<"j","s","o","n","b">> -> <<"j","s","o","n","b">>
          [] lower = <<"b","y","t","e","a">> -> <<"b","i","n","a","r","y">>
          [] lower = <<"u","s","e","r","-","d","e","f","i","n","e","d">> -> NormalizeCustomType(udtName)
          [] lower = <<"a","r","r","a","y">> -> NormalizeCustomType(udtName)
          [] OTHER -> dataType

----------------------------------------------------------------------------
(* introspect/introspect.go: Database and introspectSchemas *)

\* strings.Trim(s, cutset)
Trim(s, cutset) ==
    LET keep == {i \in DOMAIN s : \A j \in DOMAIN cutset : s[i] # cutset[j]}
    IN  IF keep = {} THEN <<>>
        ELSE SubSeq(s, CHOOSE i \in keep : \A j \in keep : i <= j,
                       CHOOSE i \in keep : \A j \in keep : j <= i)

\* strings.Split(s, sep) for a separator of one byte.
Split(s, sep) ==
    LET cuts == {i \in DOMAIN s : s[i] = sep[1]}
        cut(k) == CHOOSE c \in cuts : Cardinality({d \in cuts : d < c}) = k - 1
        n == Cardinality(cuts)
    IN  [k \in 1..(n + 1) |->
            SubSeq(s, IF k = 1 THEN 1 ELSE cut(k - 1) + 1,
                      IF k = n + 1 THEN Len(s) ELSE cut(k) - 1)]

\* An error value: its message and the error it wraps (<<>> for none).
NewError(text) == [Error |-> text, Unwrap |-> <<>>]

\* fmt.Errorf(prefix + ": %w", err)
Errorf(prefix, err) ==
    [Error |-> prefix \o <<":"," ">> \o err.Error, Unwrap |-> <<err>>]

\* func NewPostgreSQLTypeMapper(customMappings map[string]string)
NewPostgreSQLTypeMapper(customMappings) ==
    << [CustomMappings |-> customMappings] >>

\* func (m *PostgreSQLTypeMapper) MapType(...): m.CustomMappings is <<>>
\* for a nil map and <<f>> for the map f.
MapType(m, dataType, udtName, charMaxLength, numericPrecision, numericScale) ==
    IF m.CustomMappings # <<>>
         /\ ToLower(dataType) \in DOMAIN m.CustomMappings[1]
    THEN m.CustomMappings[1][ToLower(dataType)]
    ELSE IF m.CustomMappings # <<>>
              /\ ToLower(udtName) \in DOMAIN m.CustomMappings[1]
         THEN m.CustomMappings[1][ToLower(udtName)]
         ELSE MapPostgreSQLTypeToDBML(dataType, udtName, charMaxLength,
                                      numericPrecision, numericScale)

\* sql.NullString
NullString(str, valid) == [String |-> str, Valid |-> valid]

\* One row of the query of getColumns.
ColumnRow(columnName, dataTypeName, length, precision, scale, isNullable, columnDefault, udt) ==
    [column_name |-> columnName,
     data_type |-> dataTypeName,
     character_maximum_length |-> length,
     numeric_precision |-> precision,
     numeric_scale |-> scale,
     is_nullable |-> isNullable,
     column_default |-> columnDefault,
     udt_name |-> udt]

\* One row of the query of getIndexes.
IndexRow(indexName, columnsArray, isUnique) ==
    [indexname |-> indexName, columns |-> columnsArray, is_unique |-> isUnique]

\* The schema names the query of getAllSchemas leaves out.
SystemSchemas ==
    {<<"i","n","f","o","r","m","a","t","i","o","n","_","s","c","h","e","m","a">>, <<"p","g","_","c","a","t","a","l","o","g">>, <<"p","g","_","t","o","a","s","t">>, <<"p","g","_","t","e","m","p","_","1">>,
     <<"p","g","_","t","o","a","s","t","_","t","e","m","p","_","1">>}

\* getAllSchemas on the rows of information_schema.schemata, in name order.
getAllSchemas(rows) == SelectSeq(rows, LAMBDA name : name \notin SystemSchemas)

\* getTables on the table names of the schema, in name order.
getTables(schemaName, rows) ==
    [i \in DOMAIN rows |-> Table(rows[i], schemaName, <<>>, <<>>, <<>>, <<>>)]

\* The Column getColumns builds from one row; mapper is <<>> for nil.
ScanColumn(row, mapper) ==
    Column(row.column_name,
           IF mapper # <<>>
           THEN MapType(mapper[1], row.data_type, row.udt_name,
                        row.character_maximum_length, row.numeric_precision,
                        row.numeric_scale)
           ELSE MapPostgreSQLTypeToDBML(row.data_type, row.udt_name,
                        row.character_maximum_length, row.numeric_precision,
                        row.numeric_scale),
           row.is_nullable = <<"Y","E","S">>,
           IF row.column_default.Valid
           THEN << row.column_default.String >> ELSE <<>>,
           FALSE)

\* A getColumns that hands the columns back in the order of their names.
getColumnsByName(rows, mapper) ==
    SortSlice([i \in DOMAIN rows |-> ScanColumn(rows[i], mapper)], "ColumnLess")

getColumns(rows, mapper) == [i \in DOMAIN rows |-> ScanColumn(rows[i], mapper)]

getPrimaryKeys(rows) == rows

\* A marking loop that flags every column of a table with a primary key.
MarkPrimaryKeysAll(columns, primaryKeys) ==
    [i \in DOMAIN columns |->
        IF Len(primaryKeys) > 0
        THEN [columns[i] EXCEPT !.IsPrimaryKey = TRUE]
        ELSE columns[i]]

\* table.Columns[i].IsPrimaryKey = true for the columns named in primaryKeys.
MarkPrimaryKeys(columns, primaryKeys) ==
    [i \in DOMAIN columns |->
        IF \E k \in DOMAIN primaryKeys : columns[i].Name = primaryKeys[k]
        THEN [columns[i] EXCEPT !.IsPrimaryKey = TRUE]
        ELSE columns[i]]

getIndexes(rows) ==
    [i \in DOMAIN rows |->
        Index(rows[i].indexname,
              Split(Trim(rows[i].columns, <<"{","}">>), <<",">>),
              rows[i].is_unique)]

\* type options struct and defaultOptions()
defaultOptions ==
    [schemas |-> << <<"p","u","b","l","i","c">> >>,
     excludeTables |-> <<>>,
     includeAllSchemas |-> FALSE,
     typeMapper |-> <<>>]

WithSchemas(schemas) == [option |-> "WithSchemas", arg |-> schemas]

WithExcludeTables(excludeTables) ==
    [option |-> "WithExcludeTables", arg |-> excludeTables]

WithAllSchemas == [option |-> "WithAllSchemas", arg |-> <<>>]

\* opt(o)
ApplyOption(options, opt) ==
    CASE opt.option = "WithSchemas" -> [options EXCEPT !.schemas = opt.arg]
      [] opt.option = "WithExcludeTables"
           -> [options EXCEPT !.excludeTables = opt.arg]
      [] opt.option = "WithAllSchemas"
           -> [options EXCEPT !.includeAllSchemas = TRUE]

\* for _, opt := range opts { opt(o) }
ApplyOptions(options, optList) ==
    LET F[i \in 0..Len(optList)] ==
            IF i = 0 THEN options ELSE ApplyOption(F[i - 1], optList[i])
    IN  F[Len(optList)]

\* What Database has returned before it returns.
NoReturn == [schema |-> <<>>, err |-> <<>>]

\* A return that hands out the Schema built so far next to the error.
AbortPartial(partial, err) == [schema |-> <<partial>>, err |-> <<err>>]

\* return nil, err
Abort(partial, err) == [schema |-> <<>>, err |-> <<err>>]

\* return result, nil at the end of Database, after the filter.
Return(built, options) ==
    [schema |-> << IF Len(options.excludeTables) > 0
                   THEN FilterTables(built, options.excludeTables)
                   ELSE built >>,
     err |-> <<>>]

\* dbml.go: the fields of Config that select the schemas and the type
\* mapper.  TypeMapper is <<>> for a nil interface and <<m>> for the mapper
\* m, TypeMappings <<>> for a nil map and <<f>> for the map f.
Config(schemas, includeAllSchemas, typeMapper, typeMappings) ==
    [Schemas |-> schemas, IncludeAllSchemas |-> includeAllSchemas,
     TypeMapper |-> typeMapper, TypeMappings |-> typeMappings]

\* config = &Config{Schemas: []string{"public"}}
NilConfig == Config(<< <<"p","u","b","l","i","c">> >>, FALSE, <<>>, <<>>)

\* A choice that lets TypeMappings win over TypeMapper.
GenerateFromConnectionMapperMappingsFirst(cfg) ==
    LET c == IF cfg = <<>> THEN NilConfig ELSE cfg[1]
    IN  IF c.TypeMappings # <<>> /\ Cardinality(DOMAIN c.TypeMappings[1]) > 0
        THEN NewPostgreSQLTypeMapper(c.TypeMappings)
        ELSE c.TypeMapper

\* The mapper GenerateFromConnection hands to the introspection: var mapper
\* TypeMapper and the if/else if after it.
GenerateFromConnectionMapper(cfg) ==
    LET c == IF cfg = <<>> THEN NilConfig ELSE cfg[1]
    IN  IF c.TypeMapper # <<>>
        THEN c.TypeMapper
        ELSE IF c.TypeMappings # <<>>
                  /\ Cardinality(DOMAIN c.TypeMappings[1]) > 0
        THEN NewPostgreSQLTypeMapper(c.TypeMappings)
        ELSE <<>>

\* The type getColumnsWithMapper gives to a column: mapper.MapType when the
\* mapper is not nil, else mapPostgreSQLTypeToDBML.
getColumnsWithMapperType(m, dataTypeName, udt, length, precision, scale) ==
    IF m # <<>>
    THEN MapType(m[1], dataTypeName, udt, length, precision, scale)
    ELSE MapPostgreSQLTypeToDBML(dataTypeName, udt, length, precision, scale)

\* What a call has introspected: the schema names the loop of
\* IntrospectDatabaseWithMapper ranges over (<<>> when the call returned
\* before it) and the error returned.
Introspected(names, err) == [schemaNames |-> names, err |-> err]

\* IntrospectDatabaseWithMapper(db, schemaNames, mapper) of the root package
IntrospectDatabaseWithMapper(names) ==
    Introspected(<< IF Len(names) = 0 THEN << <<"p","u","b","l","i","c">> >> ELSE names >>, <<>>)

\* IntrospectAllSchemasWithMapper(db, mapper) of the root package: outcome
\* is what the query of getAllSchemas ends with.
IntrospectAllSchemasWithMapper(rows, outcome) ==
    IF outcome # <<>>
    THEN Introspected(<<>>, << Errorf(<<"f","a","i","l","e","d"," ","t","o"," ","g","e","t"," ","s","c","h","e","m","a","s">>, outcome[1]) >>)
    ELSE IntrospectDatabaseWithMapper(getAllSchemas(rows))

\* GenerateFromConnection(db, config) up to the loop over the schemas.
GenerateFromConnection(cfg, rows, outcome) ==
    LET c == IF cfg = <<>> THEN NilConfig ELSE cfg[1]
        done == IF c.IncludeAllSchemas
                THEN IntrospectAllSchemasWithMapper(rows, outcome)
                ELSE IF Len(c.Schemas) = 0
                THEN IntrospectDatabaseWithMapper(<< <<"p","u","b","l","i","c">> >>)
                ELSE IntrospectDatabaseWithMapper(c.Schemas)
    IN  IF done.err # <<>>
        THEN Introspected(<<>>,
                 << Errorf(<<"f","a","i","l","e","d"," ","t","o"," ","i","n","t","r","o","s","p","e","c","t"," ","d","a","t","a","b","a","s","e">>, done.err[1]) >>)
        ELSE done

----------------------------------------------------------------------------
(* State *)

VARIABLES
    schema,     \* the Schema the caller holds and passes to the calls
    out,        \* what the most recent call of Generate returned
    prevOut,    \* what the call of Generate before that one returned
    calls,      \* the number of calls of Generate so far
    pending,    \* which slices of schema the caller has reordered since the
                \* most recent call of Generate
    perm,       \* which slices it had reordered between the call before and
                \* the most recent call
    excluded,   \* the exclude list of the call of FilterTables
    filtered,   \* the *Schema FilterTables returned: <<>> before the call,
                \* <<s>> pointing to the Schema s after it
    fkTable,    \* the table getForeignKeys is called for
    fkRows,     \* the rows its catalog query returns, in the order read
    references, \* what the most recent call of getForeignKeys returned
    prevReferences, \* what the call before that one returned
    fkCalls,    \* the number of calls of getForeignKeys so far
    fkPending,  \* the catalog has returned the rows in another order since
                \* the most recent call
    fkPerm,     \* it had done so between the call before and the most
                \* recent call
    opts,       \* the options passed to introspect.Database
    o,          \* the options struct Database builds from them
    pc,         \* the catalog query Database issues next, "return" once it
                \* has returned
    queries,    \* the catalog queries issued so far
    schemaNames, \* the schema names introspectSchemas ranges over
    si,         \* the position of the current schema name in schemaNames
    tables,     \* the tables getTables returned for the current schema
    ti,         \* the position of the current table in tables
    table,      \* the loop variable table
    result,     \* the Schema introspectSchemas builds
    ret,        \* what Database returned: the *Schema and the error, each
                \* <<>> for nil
    failure,    \* the catalog query that failed, <<>> when none has
    dataType,   \* the arguments of a call of the type mapper
    udtName,
    charMaxLength,
    numericPrecision,
    numericScale,
    mapped,     \* what the call returned
    mapCalls,   \* the number of calls of the type mapper so far
    mapper,     \* the *PostgreSQLTypeMapper MapType is called on, <<>> for
                \* a call of the default mapper
    column,     \* the Column handed to generateColumn
    columnLine, \* what generateColumn wrote to its builder
    tableIn,    \* the Table handed to generateTable
    tableBlock, \* what generateTable wrote to its builder
    reference,  \* the Reference handed to generateReference
    referenceLine, \* what generateReference wrote to its builder
    renders,    \* the number of calls of these three so far
    schemata,   \* the rows of information_schema.schemata, as the database
                \* shows them to the connected role, in name order
    config,     \* the *Config handed to GenerateFromConnection, <<>> for
                \* nil
    generated,  \* what GenerateFromConnection did: <<>> before the call
    schemaPtr,  \* the *Schema a caller hands to Generate, FilterTables and
                \* GenerateDBML: <<>> for nil, <<s>> pointing to s
    panicked,   \* the calls that ended in a run-time panic
    dbml,       \* what GenerateDBML returned: <<>> before the call, <<text>>
                \* after it
    generateErr \* the error of the last GenerateString: <<>> for nil

genVars == <<schema, out, prevOut, calls, pending, perm, excluded, filtered>>

fkVars ==
    <<fkTable, fkRows, references, prevReferences, fkCalls, fkPending, fkPerm>>

inVars ==
    <<opts, o, pc, queries, schemaNames, si, tables, ti, table, result, ret,
      failure>>

tmVars ==
    <<dataType, udtName, charMaxLength, numericPrecision, numericScale,
      mapped, mapCalls, mapper>>

rnVars ==
    <<column, columnLine, tableIn, tableBlock, reference, referenceLine,
      renders>>

cfVars == <<schemata, config, generated>>

ptVars == <<schemaPtr, panicked, dbml, generateErr>>

vars == <<genVars, fkVars, inVars, tmVars, rnVars, cfVars, ptVars>>

\* No call of getForeignKeys is under way.
FkIdle ==
    /\ fkTable = [Schema |-> <<>>, Name |-> <<>>]
    /\ fkRows = <<>>
    /\ references = <<>>
    /\ prevReferences = <<>>
    /\ fkCalls = 0
    /\ fkPending = FALSE
    /\ fkPerm = FALSE

\* No call of introspect.Database is under way.
InIdle ==
    /\ opts = <<>>
    /\ o = defaultOptions
    /\ pc = "idle"
    /\ queries = <<>>
    /\ schemaNames = <<>>
    /\ si = 0
    /\ tables = <<>>
    /\ ti = 0
    /\ table = Table(<<>>, <<>>, <<>>, <<>>, <<>>, <<>>)
    /\ result = Schema(<<>>)
    /\ ret = NoReturn
    /\ failure = <<>>

\* No call on a *Schema of the caller is under way.
PtIdle ==
    /\ schemaPtr = <<>>
    /\ panicked = {}
    /\ dbml = <<>>
    /\ generateErr = <<>>

\* No call of GenerateFromConnection is under way and no catalog is read.
CfIdle ==
    /\ schemata = <<>>
    /\ config = <<>>
    /\ generated = <<>>

\* No call of generateColumn, generateTable or generateReference is under
\* way.
RnIdle ==
    /\ column = Column(<<>>, <<>>, FALSE, <<>>, FALSE)
    /\ columnLine = <<>>
    /\ tableIn = Table(<<>>, <<>>, <<>>, <<>>, <<>>, <<>>)
    /\ tableBlock = <<>>
    /\ reference = Reference(<<>>, <<>>, <<>>, <<>>, <<>>, <<>>, <<>>, <<>>)
    /\ referenceLine = <<>>
    /\ renders = 0

\* No call of the type mapper is under way.
TmIdle ==
    /\ dataType = <<>>
    /\ udtName = <<>>
    /\ charMaxLength = <<>>
    /\ numericPrecision = <<>>
    /\ numericScale = <<>>
    /\ mapped = <<>>
    /\ mapCalls = 0
    /\ mapper = <<>>

----------------------------------------------------------------------------
(* Inputs: the Schemas the caller builds *)

MaxTables == 2
MaxCalls == 2

NoDefault == <<>>

\* users and posts are the tables of TestGenerate and
\* TestGenerateWithReferences.
users ==
    Table(<<"u","s","e","r","s">>, <<"p","u","b","l","i","c">>,
          << Column(<<"i","d">>, <<"i","n","t">>, FALSE, NoDefault, TRUE),
             Column(<<"e","m","a","i","l">>, <<"v","a","r","c","h","a","r","(","2","5","5",")">>, FALSE, NoDefault, FALSE),
             Column(<<"n","a","m","e">>, <<"v","a","r","c","h","a","r","(","1","0","0",")">>, TRUE, NoDefault, FALSE) >>,
          << <<"i","d">> >>,
          << Index(<<"i","d","x","_","u","s","e","r","s","_","e","m","a","i","l">>, << <<"e","m","a","i","l">> >>, TRUE) >>,
          <<>>)

posts ==
    Table(<<"p","o","s","t","s">>, <<"p","u","b","l","i","c">>,
          << Column(<<"i","d">>, <<"i","n","t">>, FALSE, NoDefault, TRUE),
             Column(<<"u","s","e","r","_","i","d">>, <<"i","n","t">>, FALSE, NoDefault, FALSE) >>,
          << <<"i","d">> >>,
          <<>>,
          << Reference(<<"p","o","s","t","s">>, <<"p","u","b","l","i","c">>, << <<"u","s","e","r","_","i","d">> >>,
                       <<"u","s","e","r","s">>, <<"p","u","b","l","i","c">>, << <<"i","d">> >>,
                       <<"C","A","S","C","A","D","E">>, <<"N","O"," ","A","C","T","I","O","N">>) >>)

\* auth.users: the name of users in another schema, two indexes.
authUsers ==
    Table(<<"u","s","e","r","s">>, <<"a","u","t","h">>,
          << Column(<<"i","d">>, <<"i","n","t">>, FALSE, NoDefault, TRUE) >>,
          << <<"i","d">> >>,
          << Index(<<"i","d","x","_","b">>, << <<"i","d">>, <<"e","m","a","i","l">> >>, TRUE),
             Index(<<"i","d","x","_","a">>, << <<"e","m","a","i","l">> >>, FALSE) >>,
          <<>>)

\* A second table public.users: the sort key of users; two columns of one
\* name and two indexes of one name.
usersAgain ==
    Table(<<"u","s","e","r","s">>, <<"p","u","b","l","i","c">>,
          << Column(<<"x">>, <<"i","n","t">>, TRUE, NoDefault, FALSE),
             Column(<<"x">>, <<"t","e","x","t">>, TRUE, NoDefault, FALSE) >>,
          <<>>,
          << Index(<<"i">>, << <<"x">> >>, FALSE),
             Index(<<"i">>, << <<"x">>, <<"y">> >>, TRUE) >>,
          <<>>)

TablePool == {users, posts, authUsers, usersAgain}

\* Tables that hold foreign keys.  The first two References of orders are
\* composite keys that agree on their first columns, the third one has no
\* columns.
orders ==
    Table(<<"o","r","d","e","r","s">>, <<"p","u","b","l","i","c">>, <<>>, <<>>, <<>>,
          << Reference(<<"o","r","d","e","r","s">>, <<"p","u","b","l","i","c">>, << <<"a">>, <<"b">> >>,
                       <<"i","t","e","m","s">>, <<"p","u","b","l","i","c">>, << <<"x">>, <<"y">> >>,
                       <<"C","A","S","C","A","D","E">>, <<"N","O"," ","A","C","T","I","O","N">>),
             Reference(<<"o","r","d","e","r","s">>, <<"p","u","b","l","i","c">>, << <<"a">>, <<"c">> >>,
                       <<"i","t","e","m","s">>, <<"p","u","b","l","i","c">>, << <<"x">>, <<"z">> >>,
                       <<"N","O"," ","A","C","T","I","O","N">>, <<"N","O"," ","A","C","T","I","O","N">>),
             Reference(<<"o","r","d","e","r","s">>, <<"p","u","b","l","i","c">>, <<>>,
                       <<"i","t","e","m","s">>, <<"p","u","b","l","i","c">>, <<>>,
                       <<"S","E","T"," ","N","U","L","L">>, <<"R","E","S","T","R","I","C","T">>) >>)

items ==
    Table(<<"i","t","e","m","s">>, <<"p","u","b","l","i","c">>, <<>>, <<>>, <<>>,
          << Reference(<<"i","t","e","m","s">>, <<"p","u","b","l","i","c">>, << <<"o","r","d","e","r","_","i","d">> >>,
                       <<"o","r","d","e","r","s">>, <<"p","u","b","l","i","c">>, << <<"i","d">> >>,
                       <<"C","A","S","C","A","D","E">>, <<"S","E","T"," ","N","U","L","L">>) >>)

salesOrders ==
    Table(<<"o","r","d","e","r","s">>, <<"s","a","l","e","s">>, <<>>, <<>>, <<>>,
          << Reference(<<"o","r","d","e","r","s">>, <<"s","a","l","e","s">>, << <<"b">> >>,
                       <<"i","t","e","m","s">>, <<"p","u","b","l","i","c">>, << <<"x">> >>,
                       <<"N","O"," ","A","C","T","I","O","N">>, <<"N","O"," ","A","C","T","I","O","N">>),
             Reference(<<"o","r","d","e","r","s">>, <<"s","a","l","e","s">>, << <<"a">> >>,
                       <<"i","t","e","m","s">>, <<"p","u","b","l","i","c">>, << <<"x">> >>,
                       <<"N","O"," ","A","C","T","I","O","N">>, <<"C","A","S","C","A","D","E">>) >>)

ReferencePool == {orders, items, salesOrders}

SeqsUpTo(S, n) == UNION {[1..k -> S] : k \in 0..n}

ExcludeLists ==
    { <<>>,
      << <<"u","s","e","r","s">> >>,
      << <<"U","s","e","r","s">>, <<"p","o","s","t","s">> >>,
      << <<"p","o","s","t","s">>, <<"u","s","e","r","s">> >>,
      << <<"m","i","g","r","a","t","i","o","n","s">> >>,
      << <<"a","u","t","h",".","u","s","e","r","s">> >>,
      << <<"i","t","e","m","s">> >>,
      << <<"o","r","d","e","r","s">> >> }

----------------------------------------------------------------------------
(* The caller's steps *)

SwapAt(s, i) == [s EXCEPT ![i] = s[i + 1], ![i + 1] = s[i]]

\* The caller reorders its Schema after the first call of Generate.
BetweenCalls == calls = 1 /\ filtered = <<>>

\* The caller reorders Schema.Tables.
SwapTables ==
    /\ BetweenCalls
    /\ \E i \in 1..(Len(schema.Tables) - 1) :
          schema' = [schema EXCEPT !.Tables = SwapAt(@, i)]
    /\ pending' = pending \cup {"tables"}
    /\ UNCHANGED <<out, prevOut, calls, perm, excluded, filtered>>
    /\ UNCHANGED <<fkVars, inVars, tmVars, rnVars, cfVars, ptVars>>

\* The caller reorders the Columns of a table.
SwapColumns ==
    /\ BetweenCalls
    /\ \E t \in DOMAIN schema.Tables :
          \E i \in 1..(Len(schema.Tables[t].Columns) - 1) :
             schema' = [schema EXCEPT !.Tables[t].Columns = SwapAt(@, i)]
    /\ pending' = pending \cup {"columns"}
    /\ UNCHANGED <<out, prevOut, calls, perm, excluded, filtered>>
    /\ UNCHANGED <<fkVars, inVars, tmVars, rnVars, cfVars, ptVars>>

\* The caller reorders the Indexes of a table.
SwapIndexes ==
    /\ BetweenCalls
    /\ \E t \in DOMAIN schema.Tables :
          \E i \in 1..(Len(schema.Tables[t].Indexes) - 1) :
             schema' = [schema EXCEPT !.Tables[t].Indexes = SwapAt(@, i)]
    /\ pending' = pending \cup {"indexes"}
    /\ UNCHANGED <<out, prevOut, calls, perm, excluded, filtered>>
    /\ UNCHANGED <<fkVars, inVars, tmVars, rnVars, cfVars, ptVars>>

\* The caller reorders the References of a table.
SwapReferences ==
    /\ BetweenCalls
    /\ \E t \in DOMAIN schema.Tables :
          \E i \in 1..(Len(schema.Tables[t].References) - 1) :
             schema' = [schema EXCEPT !.Tables[t].References = SwapAt(@, i)]
    /\ pending' = pending \cup {"references"}
    /\ UNCHANGED <<out, prevOut, calls, perm, excluded, filtered>>
    /\ UNCHANGED <<fkVars, inVars, tmVars, rnVars, cfVars, ptVars>>

\* A Generate whose builder is a package-level variable: it still holds the
\* text of the call before.
CallGenerateKeptBuilder ==
    /\ calls < MaxCalls
    /\ filtered = <<>>
    /\ out' = GenerateInto(out, schema)
    /\ prevOut' = out
    /\ calls' = calls + 1
    /\ perm' = pending
    /\ pending' = {}
    /\ UNCHANGED <<schema, excluded, filtered>>
    /\ UNCHANGED <<fkVars, inVars, tmVars, rnVars, cfVars, ptVars>>

\* output, err := generator.Generate(schema)
CallGenerate ==
    /\ calls < MaxCalls
    /\ filtered = <<>>
    /\ LET call == GenerateCall(schema)
       IN  /\ out' = call.out
           /\ schema' = call.s
    /\ prevOut' = out
    /\ calls' = calls + 1
    /\ perm' = pending
    /\ pending' = {}
    /\ UNCHANGED <<excluded, filtered>>
    /\ UNCHANGED <<fkVars, inVars, tmVars, rnVars, cfVars, ptVars>>

\* filtered := schema.FilterTables(schema, excludeTables)
CallFilterTables ==
    /\ calls = 0
    /\ filtered = <<>>
    /\ \E excludeTables \in ExcludeLists :
          LET call == FilterTablesCall(schema, excludeTables)
          IN  /\ filtered' = <<call.result>>
              /\ schema' = call.s
              /\ excluded' = excludeTables
    /\ UNCHANGED <<out, prevOut, calls, pending, perm>>
    /\ UNCHANGED <<fkVars, inVars, tmVars, rnVars, cfVars, ptVars>>

GenIdle ==
    /\ out = <<>>
    /\ prevOut = <<>>
    /\ calls = 0
    /\ pending = {}
    /\ perm = {}
    /\ excluded = <<>>
    /\ filtered = <<>>

Init ==
    /\ PtIdle
    /\ CfIdle
    /\ schema \in {Schema(ts) : ts \in SeqsUpTo(TablePool, MaxTables)}
    /\ GenIdle
    /\ RnIdle
    /\ FkIdle
    /\ InIdle
    /\ TmIdle

Next ==
    \/ CallGenerate
    \/ CallFilterTables
    \/ SwapTables
    \/ SwapColumns
    \/ SwapIndexes

Spec == Init /\ [][Next]_vars

\* The calls of the two formatters on one Schema.
FormatterPool == TablePool \cup ReferencePool

\* text, err := generator.GenerateString(schema): the bytes Generate returns
\* for the Schema, as a string, and its error.
CallGenerateString ==
    /\ calls < MaxCalls
    /\ filtered = <<>>
    /\ \E generateString \in {GenerateString(schema)} :
          /\ out' = generateString.text
          /\ generateErr' = generateString.err
    /\ prevOut' = out
    /\ calls' = calls + 1
    /\ perm' = pending
    /\ pending' = {}
    /\ UNCHANGED <<schema, excluded, filtered>>
    /\ UNCHANGED <<schemaPtr, panicked, dbml>>
    /\ UNCHANGED <<fkVars, inVars, tmVars, rnVars, cfVars>>

\* text := dbml.GenerateDBML(schema)
CallGenerateDBML ==
    /\ dbml = <<>>
    /\ dbml' = << GenerateDBML(schema) >>
    /\ UNCHANGED <<schemaPtr, panicked, generateErr>>
    /\ UNCHANGED <<genVars, fkVars, inVars, tmVars, rnVars, cfVars>>

\* bytes := dbml.GenerateDBMLBytes(schema)
CallGenerateDBMLBytes ==
    /\ dbml = <<>>
    /\ dbml' = << GenerateDBMLBytes(schema) >>
    /\ UNCHANGED <<schemaPtr, panicked, generateErr>>
    /\ UNCHANGED <<genVars, fkVars, inVars, tmVars, rnVars, cfVars>>

InitFormatter ==
    /\ PtIdle
    /\ CfIdle
    /\ schema \in {Schema(ts) : ts \in SeqsUpTo(FormatterPool, MaxTables)}
    /\ GenIdle
    /\ RnIdle
    /\ FkIdle
    /\ InIdle
    /\ TmIdle

NextFormatter ==
    \/ CallGenerateString
    \/ CallGenerateDBML
    \/ CallGenerateDBMLBytes

SpecFormatter == InitFormatter /\ [][NextFormatter]_vars

\* The calls of GenerateFromConnection after the introspection: the filter,
\* then the formatter on the filtered Schema.
FilterPool == {users, posts, orders, items, salesOrders}

\* return GenerateDBML(schema), nil on the Schema filterTables returned
CallGenerateFiltered ==
    /\ calls < MaxCalls
    /\ filtered # <<>>
    /\ LET call == GenerateCall(filtered[1])
       IN  /\ out' = call.out
           /\ filtered' = << call.s >>
    /\ prevOut' = out
    /\ calls' = calls + 1
    /\ perm' = pending
    /\ pending' = {}
    /\ UNCHANGED <<schema, excluded>>
    /\ UNCHANGED <<fkVars, inVars, tmVars, rnVars, cfVars, ptVars>>

InitFiltered ==
    /\ PtIdle
    /\ CfIdle
    /\ schema \in {Schema(ts) : ts \in SeqsUpTo(FilterPool, MaxTables)}
    /\ GenIdle
    /\ RnIdle
    /\ FkIdle
    /\ InIdle
    /\ TmIdle

NextFiltered ==
    \/ CallFilterTables
    \/ CallGenerateFiltered

SpecFiltered == InitFiltered /\ [][NextFiltered]_vars

\* The calls of Generate on Schemas that hold foreign keys.
InitReferences ==
    /\ PtIdle
    /\ CfIdle
    /\ schema \in {Schema(ts) :
                      ts \in SeqsUpTo(ReferencePool, MaxTables)}
    /\ GenIdle
    /\ RnIdle
    /\ FkIdle
    /\ InIdle
    /\ TmIdle

NextReferences ==
    \/ CallGenerate
    \/ SwapTables
    \/ SwapReferences

SpecReferences == InitReferences /\ [][NextReferences]_vars

----------------------------------------------------------------------------
(* The calls of getForeignKeys *)

MaxRows == 3

Cascade == <<"C","A","S","C","A","D","E">>
Restrict == <<"R","E","S","T","R","I","C","T">>
SetNull == <<"S","E","T"," ","N","U","L","L">>

FkTables ==
    { [Schema |-> <<"p","u","b","l","i","c">>, Name |-> <<"p","o","s","t","s">>],
      [Schema |-> <<"b","l","o","g">>, Name |-> <<"p","o","s","t","s">>] }

\* The rows of the constraints on user_id -> public.users.id: the catalog
\* holds one row a constraint, and constraints on the same pair of columns
\* may declare different rules.
UserIdRow(deleteRule, updateRule) ==
    ForeignKeyRow(<<"u","s","e","r","_","i","d">>, <<"p","u","b","l","i","c">>, <<"u","s","e","r","s">>, <<"i","d">>, deleteRule, updateRule, 1)

FkRowPool ==
    { UserIdRow(NoAction, NoAction),
      UserIdRow(Cascade, NoAction),
      UserIdRow(Restrict, NoAction),
      UserIdRow(NoAction, Cascade),
      ForeignKeyRow(<<"a","u","t","h","o","r","_","i","d">>, <<"p","u","b","l","i","c">>, <<"u","s","e","r","s">>, <<"i","d">>, SetNull, NoAction, 1),
      ForeignKeyRow(<<"t","e","n","a","n","t","_","i","d">>, <<"p","u","b","l","i","c">>, <<"u","s","e","r","s">>, <<"t","e","n","a","n","t","_","i","d">>, Cascade, NoAction, 2) }

\* SELECT DISTINCT ... ORDER BY kcu1.ordinal_position
QueryResult(rows) ==
    /\ \A i, j \in DOMAIN rows : rows[i] = rows[j] => i = j
    /\ \A i, j \in DOMAIN rows :
          i < j => rows[i].ordinal_position <= rows[j].ordinal_position

\* The catalog returns rows of one ordinal_position in another order.
SwapRows ==
    /\ fkCalls = 1
    /\ \E i \in 1..(Len(fkRows) - 1) :
          /\ fkRows[i].ordinal_position = fkRows[i + 1].ordinal_position
          /\ fkRows' = SwapAt(fkRows, i)
    /\ fkPending' = TRUE
    /\ UNCHANGED <<fkTable, references, prevReferences, fkCalls, fkPerm>>
    /\ UNCHANGED <<genVars, inVars, tmVars, rnVars, cfVars, ptVars>>

\* references, err := getForeignKeys(db, schemaName, tableName)
CallGetForeignKeys ==
    /\ fkCalls < MaxCalls
    /\ LET referenceMap ==
               ReadForeignKeyRows(fkTable.Schema, fkTable.Name, fkRows)
       IN  \E keys \in RangeOrders(referenceMap) :
              references' = SortedReferences(referenceMap, keys)
    /\ prevReferences' = references
    /\ fkCalls' = fkCalls + 1
    /\ fkPerm' = fkPending
    /\ fkPending' = FALSE
    /\ UNCHANGED <<fkTable, fkRows>>
    /\ UNCHANGED <<genVars, inVars, tmVars, rnVars, cfVars, ptVars>>

InitFK ==
    /\ PtIdle
    /\ CfIdle
    /\ schema = Schema(<<>>)
    /\ GenIdle
    /\ RnIdle
    /\ fkTable \in FkTables
    /\ fkRows \in {rows \in SeqsUpTo(FkRowPool, MaxRows) : QueryResult(rows)}
    /\ references = <<>>
    /\ prevReferences = <<>>
    /\ fkCalls = 0
    /\ fkPending = FALSE
    /\ fkPerm = FALSE
    /\ InIdle
    /\ TmIdle

NextFK ==
    \/ CallGetForeignKeys
    \/ SwapRows

SpecFK == InitFK /\ [][NextFK]_vars

\* Rows whose names hold the separators of the key: PostgreSQL accepts any
\* character in a quoted identifier.  The first two rows differ in the
\* schema and the table they refer to, the fourth and the fifth in the
\* column and the schema; the third and the sixth share their tuple.
SeparatorRowPool ==
    { ForeignKeyRow(<<"r","e","f">>, <<"a","p","p",".","v","2">>, <<"u","s","e","r","s">>, <<"i","d">>, Cascade, NoAction, 1),
      ForeignKeyRow(<<"r","e","f">>, <<"a","p","p">>, <<"v","2",".","u","s","e","r","s">>, <<"i","d">>, NoAction, NoAction, 1),
      ForeignKeyRow(<<"r","e","f">>, <<"a","p","p">>, <<"u","s","e","r","s">>, <<"i","d">>, NoAction, NoAction, 1),
      ForeignKeyRow(<<"r","e","f","-",">","x">>, <<"a","p","p">>, <<"u","s","e","r","s">>, <<"i","d">>, SetNull, NoAction, 1),
      ForeignKeyRow(<<"r","e","f">>, <<"x","-",">","a","p","p">>, <<"u","s","e","r","s">>, <<"i","d">>, NoAction, NoAction, 1),
      ForeignKeyRow(<<"r","e","f">>, <<"a","p","p">>, <<"u","s","e","r","s">>, <<"i","d">>, Cascade, NoAction, 1) }

\* The calls of getForeignKeys on these rows.
InitFKSeparators ==
    /\ schema = Schema(<<>>)
    /\ GenIdle
    /\ RnIdle
    /\ CfIdle
    /\ PtIdle
    /\ fkTable \in FkTables
    /\ fkRows \in {rows \in SeqsUpTo(SeparatorRowPool, MaxRows) :
                      QueryResult(rows)}
    /\ references = <<>>
    /\ prevReferences = <<>>
    /\ fkCalls = 0
    /\ fkPending = FALSE
    /\ fkPerm = FALSE
    /\ InIdle
    /\ TmIdle

SpecFKSeparators == InitFKSeparators /\ [][NextFK]_vars

----------------------------------------------------------------------------
(* The calls of the type mapper *)

UpperByte(c) ==
    IF \E i \in DOMAIN LowerCase : LowerCase[i] = c
    THEN UpperCase[CHOOSE i \in DOMAIN LowerCase : LowerCase[i] = c]
    ELSE c

\* The catalog and the callers write a type name in lower case, in upper
\* case or with a leading capital.
LetterCases(s) ==
    { s,
      [i \in DOMAIN s |-> UpperByte(s[i])],
      [i \in DOMAIN s |-> IF i = 1 THEN UpperByte(s[i]) ELSE s[i]] }

DataTypes ==
    UNION {LetterCases(k) : k \in DOMAIN DefaultTypeMappings}
      \cup LetterCases(<<"u","s","e","r","-","d","e","f","i","n","e","d">>) \cup LetterCases(<<"a","r","r","a","y">>)
      \cup {<<"c","i","t","e","x","t">>, <<"M","o","n","e","y">>, <<>>}

UdtNames ==
    {<<"i","n","t","4">>, <<"_","i","n","t","4">>, <<"c","u","s","t","o","m","_","e","n","u","m">>, <<"_","s","t","a","t","u","s">>, <<"a","d","d","r","e","s","s">>}

LengthHints == {NullInt64(0, FALSE), NullInt64(255, TRUE), NullInt64(0, TRUE)}

PrecisionHints == {NullInt64(0, FALSE), NullInt64(10, TRUE)}

ScaleHints == {NullInt64(0, FALSE), NullInt64(2, TRUE), NullInt64(0 - 1, TRUE)}

\* A mapper whose default case returns the lower-cased type name.
CallMapLowered ==
    /\ mapCalls = 0
    /\ mapped' = MapPostgreSQLTypeToDBML(ToLower(dataType), udtName,
                                         charMaxLength, numericPrecision,
                                         numericScale)
    /\ mapCalls' = mapCalls + 1
    /\ UNCHANGED <<dataType, udtName, charMaxLength, numericPrecision,
                   numericScale, mapper>>
    /\ UNCHANGED <<genVars, fkVars, inVars, rnVars, cfVars, ptVars>>

\* col.Type = MapPostgreSQLTypeToDBML(dataType, udtName, charMaxLength,
\*                                    numericPrecision, numericScale)
CallMapPostgreSQLTypeToDBML ==
    /\ mapCalls = 0
    /\ mapped' = MapPostgreSQLTypeToDBML(dataType, udtName, charMaxLength,
                                         numericPrecision, numericScale)
    /\ mapCalls' = mapCalls + 1
    /\ UNCHANGED <<dataType, udtName, charMaxLength, numericPrecision,
                   numericScale, mapper>>
    /\ UNCHANGED <<genVars, fkVars, inVars, rnVars, cfVars, ptVars>>

InitType ==
    /\ PtIdle
    /\ CfIdle
    /\ schema = Schema(<<>>)
    /\ GenIdle
    /\ RnIdle
    /\ FkIdle
    /\ InIdle
    /\ dataType \in DataTypes
    /\ udtName \in UdtNames
    /\ charMaxLength \in LengthHints
    /\ numericPrecision \in PrecisionHints
    /\ numericScale \in ScaleHints
    /\ mapped = <<>>
    /\ mapCalls = 0
    /\ mapper = <<>>

NextType == CallMapPostgreSQLTypeToDBML

SpecType == InitType /\ [][NextType]_vars

----------------------------------------------------------------------------
(* The calls of introspect.Database *)

MaxOptions == 2

\* The database: the rows its catalog returns to each query.
CatalogSchemas ==
    << <<"a","u","t","h">>, <<"i","n","f","o","r","m","a","t","i","o","n","_","s","c","h","e","m","a">>, <<"p","g","_","c","a","t","a","l","o","g">>, <<"p","u","b","l","i","c">> >>

CatalogTables(schemaName) ==
    CASE schemaName = <<"p","u","b","l","i","c">> -> << <<"p","o","s","t","s">>, <<"u","s","e","r","s">> >>
      [] schemaName = <<"a","u","t","h">> -> << <<"u","s","e","r","s">> >>
      [] OTHER -> <<>>

NoHint == NullInt64(0, FALSE)

NoColumnDefault == NullString(<<>>, FALSE)

CatalogColumns(schemaName, tableName) ==
    CASE schemaName = <<"p","u","b","l","i","c">> /\ tableName = <<"p","o","s","t","s">> ->
           << ColumnRow(<<"i","d">>, <<"i","n","t","e","g","e","r">>, NoHint, NullInt64(32, TRUE),
                        NullInt64(0, TRUE), <<"N","O">>,
                        NullString(<<"n","e","x","t","v","a","l","(","'","p","o","s","t","s","_","i","d","_","s","e","q","'",")">>, TRUE), <<"i","n","t","4">>),
              ColumnRow(<<"u","s","e","r","_","i","d">>, <<"i","n","t","e","g","e","r">>, NoHint, NullInt64(32, TRUE),
                        NullInt64(0, TRUE), <<"N","O">>, NoColumnDefault, <<"i","n","t","4">>),
              ColumnRow(<<"t","i","t","l","e">>, <<"c","h","a","r","a","c","t","e","r"," ","v","a","r","y","i","n","g">>, NullInt64(255, TRUE),
                        NoHint, NoHint, <<"Y","E","S">>, NoColumnDefault, <<"v","a","r","c","h","a","r">>) >>
      [] schemaName = <<"p","u","b","l","i","c">> /\ tableName = <<"u","s","e","r","s">> ->
           << ColumnRow(<<"i","d">>, <<"i","n","t","e","g","e","r">>, NoHint, NullInt64(32, TRUE),
                        NullInt64(0, TRUE), <<"N","O">>, NoColumnDefault, <<"i","n","t","4">>),
              ColumnRow(<<"e","m","a","i","l">>, <<"U","S","E","R","-","D","E","F","I","N","E","D">>, NoHint, NoHint, NoHint,
                        <<"N","O">>, NoColumnDefault, <<"c","i","t","e","x","t">>) >>
      [] schemaName = <<"a","u","t","h">> /\ tableName = <<"u","s","e","r","s">> ->
           << ColumnRow(<<"i","d">>, <<"u","u","i","d">>, NoHint, NoHint, NoHint, <<"N","O">>,
                        NoColumnDefault, <<"u","u","i","d">>) >>
      [] OTHER -> <<>>

CatalogPrimaryKeys(schemaName, tableName) ==
    CASE schemaName = <<"p","u","b","l","i","c">> /\ tableName = <<"p","o","s","t","s">> -> << <<"i","d">> >>
      [] schemaName = <<"p","u","b","l","i","c">> /\ tableName = <<"u","s","e","r","s">> -> << <<"i","d">> >>
      [] OTHER -> <<>>

CatalogIndexes(schemaName, tableName) ==
    CASE schemaName = <<"p","u","b","l","i","c">> /\ tableName = <<"p","o","s","t","s">> ->
           << IndexRow(<<"i","d","x","_","p","o","s","t","s","_","t","i","t","l","e">>, <<"{","u","s","e","r","_","i","d",",","t","i","t","l","e","}">>, FALSE) >>
      [] schemaName = <<"p","u","b","l","i","c">> /\ tableName = <<"u","s","e","r","s">> ->
           << IndexRow(<<"i","d","x","_","u","s","e","r","s","_","e","m","a","i","l">>, <<"{","e","m","a","i","l","}">>, TRUE) >>
      [] OTHER -> <<>>

CatalogForeignKeys(schemaName, tableName) ==
    CASE schemaName = <<"p","u","b","l","i","c">> /\ tableName = <<"p","o","s","t","s">> ->
           << UserIdRow(NoAction, NoAction), UserIdRow(Cascade, NoAction) >>
      [] OTHER -> <<>>

OptionPool ==
    { WithSchemas(<< <<"a","u","t","h">>, <<"p","u","b","l","i","c">> >>),
      WithSchemas(<< <<"p","u","b","l","i","c">>, <<"p","u","b","l","i","c">> >>),
      WithSchemas(<< <<"m","i","s","s","i","n","g">> >>),
      WithSchemas(<<>>),
      WithAllSchemas,
      WithExcludeTables(<< <<"u","s","e","r","s">> >>) }

\* The errors a catalog query fails with: db.Query, rows.Scan or rows.Err.
QueryErrors ==
    { NewError(<<"d","r","i","v","e","r",":"," ","b","a","d"," ","c","o","n","n","e","c","t","i","o","n">>),
      NewError(<<"s","q","l",":"," ","S","c","a","n"," ","e","r","r","o","r">>) }

\* What a catalog query ends with: <<>> for a nil error, <<err>> for err.
Outcomes == {<<>>} \cup {<<err>> : err \in QueryErrors}

\* The catalog query op for a schema and a table (<<>> where it has none).
Query(op, schemaName, tableName) ==
    [op |-> op, schema |-> schemaName, table |-> tableName]

\* The position of Database in its loops.
Here ==
    [pc |-> pc, si |-> si, tables |-> tables, ti |-> ti, table |-> table,
     result |-> result, ret |-> ret]

Goto(there) ==
    /\ pc' = there.pc
    /\ si' = there.si
    /\ tables' = there.tables
    /\ ti' = there.ti
    /\ table' = there.table
    /\ result' = there.result
    /\ ret' = there.ret

\* The query failed: Database returns the wrapped error.
Failed(query, prefix, err) ==
    /\ failure' = << [query |-> query, cause |-> err, at |-> Len(queries) + 1] >>
    /\ Goto([Here EXCEPT !.pc = "return",
                         !.ret = Abort(result, Errorf(prefix, err))])

\* The loop over schemaNames moves on from the schema at position at; past
\* the last schema introspectSchemas returns and Database filters.
NextSchema(here, names, at) ==
    IF at < Len(names)
    THEN [here EXCEPT !.pc = "getTables", !.si = at + 1, !.tables = <<>>,
                      !.ti = 0]
    ELSE [here EXCEPT !.pc = "return", !.ret = Return(here.result, o)]

\* Database up to the first query of introspectSchemas: the options, the
\* query of getAllSchemas when asked for, the default schema list.
Database ==
    /\ pc = "Database"
    /\ LET options == ApplyOptions(defaultOptions, opts)
           enter(names) ==
               /\ schemaNames' =
                     IF Len(names) = 0 THEN << <<"p","u","b","l","i","c">> >> ELSE names
               /\ Goto([Here EXCEPT !.pc = "getTables", !.si = 1,
                                    !.result = Schema(<<>>)])
               /\ failure' = failure
       IN  /\ o' = options
           /\ IF options.includeAllSchemas
              THEN /\ queries' = Append(queries, Query(<<"s","c","h","e","m","a","s">>, <<>>, <<>>))
                   /\ \E outcome \in Outcomes :
                         IF outcome # <<>>
                         THEN /\ Failed(Query(<<"s","c","h","e","m","a","s">>, <<>>, <<>>),
                                        <<"f","a","i","l","e","d"," ","t","o"," ","g","e","t"," ","s","c","h","e","m","a","s">>, outcome[1])
                              /\ schemaNames' = schemaNames
                         ELSE enter(getAllSchemas(schemata))
              ELSE /\ queries' = queries
                   /\ enter(options.schemas)
    /\ UNCHANGED opts
    /\ UNCHANGED <<genVars, fkVars, tmVars, rnVars, cfVars, ptVars>>

\* tables, err := getTables(db, schemaName)
GetTables ==
    /\ pc = "getTables"
    /\ LET schemaName == schemaNames[si]
           query == Query(<<"t","a","b","l","e","s">>, schemaName, <<>>)
       IN  /\ queries' = Append(queries, query)
           /\ \E outcome \in Outcomes :
                 IF outcome # <<>>
                 THEN Failed(query,
                             <<"f","a","i","l","e","d"," ","t","o"," ","g","e","t"," ","t","a","b","l","e","s"," ","f","o","r"," ","s","c","h","e","m","a"," ">> \o schemaName,
                             outcome[1])
                 ELSE LET found == getTables(schemaName, CatalogTables(schemaName))
                      IN  /\ failure' = failure
                          /\ IF Len(found) = 0
                             THEN Goto(NextSchema(Here, schemaNames, si))
                             ELSE Goto([Here EXCEPT !.pc = "getColumns",
                                                    !.tables = found,
                                                    !.ti = 1,
                                                    !.table = found[1]])
    /\ UNCHANGED <<opts, o, schemaNames>>
    /\ UNCHANGED <<genVars, fkVars, tmVars, rnVars, cfVars, ptVars>>

\* columns, err := getColumns(db, schemaName, table.Name, mapper)
GetColumns ==
    /\ pc = "getColumns"
    /\ LET schemaName == schemaNames[si]
           query == Query(<<"c","o","l","u","m","n","s">>, schemaName, table.Name)
       IN  /\ queries' = Append(queries, query)
           /\ \E outcome \in Outcomes :
                 IF outcome # <<>>
                 THEN Failed(query,
                             <<"f","a","i","l","e","d"," ","t","o"," ","g","e","t"," ","c","o","l","u","m","n","s"," ","f","o","r"," ","t","a","b","l","e"," ">> \o schemaName
                               \o <<".">> \o table.Name,
                             outcome[1])
                 ELSE LET columns == getColumns(CatalogColumns(schemaName, table.Name),
                                                o.typeMapper)
                      IN  /\ failure' = failure
                          /\ Goto([Here EXCEPT !.pc = "getPrimaryKeys",
                                               !.table.Columns = columns])
    /\ UNCHANGED <<opts, o, schemaNames>>
    /\ UNCHANGED <<genVars, fkVars, tmVars, rnVars, cfVars, ptVars>>

\* primaryKeys, err := getPrimaryKeys(db, schemaName, table.Name), and the
\* loop that marks the primary-key columns.
GetPrimaryKeys ==
    /\ pc = "getPrimaryKeys"
    /\ LET schemaName == schemaNames[si]
           query == Query(<<"p","r","i","m","a","r","y"," ","k","e","y","s">>, schemaName, table.Name)
       IN  /\ queries' = Append(queries, query)
           /\ \E outcome \in Outcomes :
                 IF outcome # <<>>
                 THEN Failed(query,
                             <<"f","a","i","l","e","d"," ","t","o"," ","g","e","t"," ","p","r","i","m","a","r","y"," ","k","e","y","s"," ","f","o","r"," ","t","a","b","l","e"," ">>
                               \o schemaName \o <<".">> \o table.Name,
                             outcome[1])
                 ELSE LET primaryKeys ==
                              getPrimaryKeys(CatalogPrimaryKeys(schemaName, table.Name))
                      IN  /\ failure' = failure
                          /\ Goto([Here EXCEPT
                                     !.pc = "getIndexes",
                                     !.table.PrimaryKeys = primaryKeys,
                                     !.table.Columns =
                                         MarkPrimaryKeys(@, primaryKeys)])
    /\ UNCHANGED <<opts, o, schemaNames>>
    /\ UNCHANGED <<genVars, fkVars, tmVars, rnVars, cfVars, ptVars>>

\* indexes, err := getIndexes(db, schemaName, table.Name)
GetIndexes ==
    /\ pc = "getIndexes"
    /\ LET schemaName == schemaNames[si]
           query == Query(<<"i","n","d","e","x","e","s">>, schemaName, table.Name)
       IN  /\ queries' = Append(queries, query)
           /\ \E outcome \in Outcomes :
                 IF outcome # <<>>
                 THEN Failed(query,
                             <<"f","a","i","l","e","d"," ","t","o"," ","g","e","t"," ","i","n","d","e","x","e","s"," ","f","o","r"," ","t","a","b","l","e"," ">> \o schemaName
                               \o <<".">> \o table.Name,
                             outcome[1])
                 ELSE LET indexes == getIndexes(CatalogIndexes(schemaName, table.Name))
                      IN  /\ failure' = failure
                          /\ Goto([Here EXCEPT !.pc = "getForeignKeys",
                                               !.table.Indexes = indexes])
    /\ UNCHANGED <<opts, o, schemaNames>>
    /\ UNCHANGED <<genVars, fkVars, tmVars, rnVars, cfVars, ptVars>>

\* references, err := getForeignKeys(db, schemaName, table.Name), the append
\* to result.Tables and the step to the next table, the next schema or the
\* return.
GetForeignKeys ==
    /\ pc = "getForeignKeys"
    /\ LET schemaName == schemaNames[si]
           query == Query(<<"f","o","r","e","i","g","n"," ","k","e","y","s">>, schemaName, table.Name)
       IN  /\ queries' = Append(queries, query)
           /\ \E outcome \in Outcomes :
                 IF outcome # <<>>
                 THEN Failed(query,
                             <<"f","a","i","l","e","d"," ","t","o"," ","g","e","t"," ","f","o","r","e","i","g","n"," ","k","e","y","s"," ","f","o","r"," ","t","a","b","l","e"," ">>
                               \o schemaName \o <<".">> \o table.Name,
                             outcome[1])
                 ELSE LET referenceMap ==
                              ReadForeignKeyRows(schemaName, table.Name,
                                  CatalogForeignKeys(schemaName, table.Name))
                      IN  \E keys \in RangeOrders(referenceMap) :
                             LET done == [table EXCEPT !.References =
                                             SortedReferences(referenceMap, keys)]
                                 appended == [Here EXCEPT !.result.Tables =
                                                 Append(@, done),
                                                          !.table = done]
                             IN  /\ failure' = failure
                                 /\ IF ti < Len(tables)
                                    THEN Goto([appended EXCEPT
                                                 !.pc = "getColumns",
                                                 !.ti = ti + 1,
                                                 !.table = tables[ti + 1]])
                                    ELSE Goto(NextSchema(appended, schemaNames, si))
    /\ UNCHANGED <<opts, o, schemaNames>>
    /\ UNCHANGED <<genVars, fkVars, tmVars, rnVars, cfVars, ptVars>>

InitIntrospect ==
    /\ PtIdle
    /\ schemata = CatalogSchemas
    /\ config = <<>>
    /\ generated = <<>>
    /\ schema = Schema(<<>>)
    /\ GenIdle
    /\ RnIdle
    /\ FkIdle
    /\ TmIdle
    /\ opts \in SeqsUpTo(OptionPool, MaxOptions)
    /\ o = defaultOptions
    /\ pc = "Database"
    /\ queries = <<>>
    /\ schemaNames = <<>>
    /\ si = 0
    /\ tables = <<>>
    /\ ti = 0
    /\ table = Table(<<>>, <<>>, <<>>, <<>>, <<>>, <<>>)
    /\ result = Schema(<<>>)
    /\ ret = NoReturn
    /\ failure = <<>>

NextIntrospect ==
    \/ Database
    \/ GetTables
    \/ GetColumns
    \/ GetPrimaryKeys
    \/ GetIndexes
    \/ GetForeignKeys

SpecIntrospect == InitIntrospect /\ [][NextIntrospect]_vars

----------------------------------------------------------------------------
(* The selection of the schemas: GenerateFromConnection and Database *)

\* What information_schema.schemata shows: every schema, or the system
\* schemas alone when the role sees no other one.
SchemataPool ==
    { CatalogSchemas, << <<"i","n","f","o","r","m","a","t","i","o","n","_","s","c","h","e","m","a">>, <<"p","g","_","c","a","t","a","l","o","g">> >> }

ConfigPool ==
    { <<>>,
      << Config(<<>>, FALSE, <<>>, <<>>) >>,
      << Config(<<>>, TRUE, <<>>, <<>>) >>,
      << Config(<< <<"p","u","b","l","i","c">>, <<"a","u","t","h">> >>, FALSE, <<>>, <<>>) >>,
      << Config(<< <<"p","u","b","l","i","c">>, <<"a","u","t","h">> >>, TRUE, <<>>, <<>>) >> }

\* GenerateFromConnection(db, config), before the caller calls Database
CallGenerateFromConnection ==
    /\ pc = "Database"
    /\ generated = <<>>
    /\ \E outcome \in Outcomes :
          generated' = << GenerateFromConnection(config, schemata, outcome) >>
    /\ UNCHANGED <<schemata, config>>
    /\ UNCHANGED <<genVars, fkVars, inVars, tmVars, rnVars, ptVars>>

InitSelection ==
    /\ PtIdle
    /\ schema = Schema(<<>>)
    /\ GenIdle
    /\ RnIdle
    /\ FkIdle
    /\ TmIdle
    /\ schemata \in SchemataPool
    /\ config \in ConfigPool
    /\ generated = <<>>
    /\ opts \in SeqsUpTo(OptionPool, MaxOptions)
    /\ o = defaultOptions
    /\ pc = "Database"
    /\ queries = <<>>
    /\ schemaNames = <<>>
    /\ si = 0
    /\ tables = <<>>
    /\ ti = 0
    /\ table = Table(<<>>, <<>>, <<>>, <<>>, <<>>, <<>>)
    /\ result = Schema(<<>>)
    /\ ret = NoReturn
    /\ failure = <<>>

NextSelection ==
    \/ CallGenerateFromConnection
    \/ NextIntrospect

SpecSelection == InitSelection /\ [][NextSelection]_vars

----------------------------------------------------------------------------
(* The calls of PostgreSQLTypeMapper.MapType *)

\* The override maps: <<>> is the nil map, <<f>> the map f.  The first map
\* is the one of TestPostgreSQLTypeMapper.
CustomMappingPool ==
    { <<>>,
      << <<>> >>,
      << (<<"c","i","t","e","x","t">> :> <<"v","a","r","c","h","a","r">>) @@ (<<"l","t","r","e","e">> :> <<"t","e","x","t">>) >>,
      << (<<"C","I","T","E","X","T">> :> <<"v","a","r","c","h","a","r">>) >>,
      << (<<"i","n","t","e","g","e","r">> :> <<"b","i","g","i","n","t">>) @@ (<<"i","n","t","4">> :> <<"s","m","a","l","l","i","n","t">>) >>,
      << (<<"L","t","r","e","e">> :> <<"t","e","x","t">>) >> }

MapperDataTypes ==
    {<<"c","i","t","e","x","t">>, <<"C","I","T","E","X","T">>, <<"i","n","t","e","g","e","r">>, <<"I","n","t","e","g","e","r">>, <<"u","s","e","r","-","d","e","f","i","n","e","d">>,
     <<"c","h","a","r","a","c","t","e","r"," ","v","a","r","y","i","n","g">>}

MapperUdtNames == {<<"c","i","t","e","x","t">>, <<"l","t","r","e","e">>, <<"L","T","R","E","E">>, <<"i","n","t","4">>, <<"v","a","r","c","h","a","r">>}

\* col.Type = mapper.MapType(dataType, udtName, charMaxLength,
\*                            numericPrecision, numericScale)
CallMapType ==
    /\ mapCalls = 0
    /\ mapper # <<>>
    /\ mapped' = MapType(mapper[1], dataType, udtName, charMaxLength,
                         numericPrecision, numericScale)
    /\ mapCalls' = mapCalls + 1
    /\ UNCHANGED <<dataType, udtName, charMaxLength, numericPrecision,
                   numericScale, mapper>>
    /\ UNCHANGED <<genVars, fkVars, inVars, rnVars, cfVars, ptVars>>

InitMapper ==
    /\ PtIdle
    /\ CfIdle
    /\ schema = Schema(<<>>)
    /\ GenIdle
    /\ RnIdle
    /\ FkIdle
    /\ InIdle
    /\ mapper \in {NewPostgreSQLTypeMapper(m) : m \in CustomMappingPool}
    /\ dataType \in MapperDataTypes
    /\ udtName \in MapperUdtNames
    /\ charMaxLength \in {NullInt64(0, FALSE), NullInt64(255, TRUE)}
    /\ numericPrecision = NullInt64(0, FALSE)
    /\ numericScale = NullInt64(0, FALSE)
    /\ mapped = <<>>
    /\ mapCalls = 0

NextMapper == CallMapType

SpecMapper == InitMapper /\ [][NextMapper]_vars

----------------------------------------------------------------------------
(* The type mapper of GenerateFromConnection *)

\* The TypeMapper values of a Config: nil, the mapper of
\* TestPostgreSQLTypeMapper, a mapper without override map.
ConfigTypeMappers ==
    { <<>>,
      NewPostgreSQLTypeMapper(<< (<<"c","i","t","e","x","t">> :> <<"v","a","r","c","h","a","r">>)
                                   @@ (<<"l","t","r","e","e">> :> <<"t","e","x","t">>) >>),
      NewPostgreSQLTypeMapper(<<>>) }

\* The TypeMappings values of a Config: nil, the empty map, two maps that
\* override what the mappers above return.
ConfigTypeMappings ==
    { <<>>,
      << <<>> >>,
      << (<<"c","i","t","e","x","t">> :> <<"t","e","x","t">>) >>,
      << (<<"i","n","t","e","g","e","r">> :> <<"b","i","g","i","n","t">>) @@ (<<"i","n","t","4">> :> <<"s","m","a","l","l","i","n","t">>) >> }

\* GenerateFromConnection(db, config) as far as the type of one column goes:
\* the mapper chosen from config, handed down to getColumnsWithMapper, and
\* the type that one gives to the column of the row read.
CallGetColumnsWithMapper ==
    /\ mapCalls = 0
    /\ LET chosen == GenerateFromConnectionMapper(config)
       IN  /\ mapper' = chosen
           /\ mapped' = getColumnsWithMapperType(chosen, dataType, udtName,
                            charMaxLength, numericPrecision, numericScale)
    /\ mapCalls' = mapCalls + 1
    /\ UNCHANGED <<dataType, udtName, charMaxLength, numericPrecision,
                   numericScale>>
    /\ UNCHANGED <<schemata, config, generated>>
    /\ UNCHANGED <<genVars, fkVars, inVars, rnVars, ptVars>>

InitConfigMapper ==
    /\ schema = Schema(<<>>)
    /\ GenIdle
    /\ RnIdle
    /\ FkIdle
    /\ InIdle
    /\ PtIdle
    /\ schemata = <<>>
    /\ config \in
          {<<>>} \cup
          { << Config(<<>>, FALSE, typeMapper, typeMappings) >> :
              typeMapper \in ConfigTypeMappers,
              typeMappings \in ConfigTypeMappings }
    /\ generated = <<>>
    /\ mapper = <<>>
    /\ dataType \in MapperDataTypes
    /\ udtName \in MapperUdtNames
    /\ charMaxLength \in {NullInt64(0, FALSE), NullInt64(255, TRUE)}
    /\ numericPrecision = NullInt64(0, FALSE)
    /\ numericScale = NullInt64(0, FALSE)
    /\ mapped = <<>>
    /\ mapCalls = 0

NextConfigMapper == CallGetColumnsWithMapper

SpecConfigMapper == InitConfigMapper /\ [][NextConfigMapper]_vars

----------------------------------------------------------------------------
(* The calls of generateColumn *)

\* The default expressions of TestGenerateWithDefaultValue and
\* TestGenerateWithAutoIncrement, and expressions close to the prefix
\* nextval( or holding the separators of the attribute list.
DefaultValuePool ==
    { <<"n","o","w","(",")">>, <<"n","e","x","t","v","a","l","(","'","u","s","e","r","s","_","i","d","_","s","e","q","'",":",":","r","e","g","c","l","a","s","s",")">>, <<"N","E","X","T","V","A","L","(","1",")">>,
      <<" ","n","e","x","t","v","a","l","(","s",")">>, <<"n","e","x","t","v","a","l">>, <<"a",","," ","b","]">>, <<>> }

ColumnPool ==
    { Column(name, type, nullable, defaultValue, isPrimaryKey) :
        name \in {<<"i","d">>, <<"c","r","e","a","t","e","d","_","a","t">>},
        type \in {<<"i","n","t">>, <<"v","a","r","c","h","a","r","(","2","5","5",")">>},
        nullable \in BOOLEAN,
        defaultValue \in {NoDefault} \cup {<<v>> : v \in DefaultValuePool},
        isPrimaryKey \in BOOLEAN }

\* generateColumn(builder, column) on an empty builder
CallGenerateColumn ==
    /\ renders = 0
    /\ columnLine' = generateColumn(<<>>, column)
    /\ renders' = renders + 1
    /\ UNCHANGED <<column, tableIn, tableBlock, reference, referenceLine>>
    /\ UNCHANGED <<genVars, fkVars, inVars, tmVars, cfVars, ptVars>>

InitColumn ==
    /\ PtIdle
    /\ CfIdle
    /\ schema = Schema(<<>>)
    /\ GenIdle
    /\ FkIdle
    /\ InIdle
    /\ TmIdle
    /\ column \in ColumnPool
    /\ columnLine = <<>>
    /\ tableIn = Table(<<>>, <<>>, <<>>, <<>>, <<>>, <<>>)
    /\ tableBlock = <<>>
    /\ reference = Reference(<<>>, <<>>, <<>>, <<>>, <<>>, <<>>, <<>>, <<>>)
    /\ referenceLine = <<>>
    /\ renders = 0

NextColumn == CallGenerateColumn

SpecColumn == InitColumn /\ [][NextColumn]_vars

----------------------------------------------------------------------------
(* The calls of generateTable *)

MaxIndexes == 2

IndexPool ==
    { Index(name, columns, unique) :
        name \in {<<"i","d","x","_","a">>, <<"i","d","x","_","b">>},
        columns \in {<<>>, << <<"e","m","a","i","l">> >>, << <<"e","m","a","i","l">>, <<"n","a","m","e">> >>},
        unique \in BOOLEAN }

TableSchemas == {<<>>, <<"p","u","b","l","i","c">>, <<"a","u","t","h">>, <<"P","u","b","l","i","c">>}

TableColumns ==
    { <<>>,
      << Column(<<"i","d">>, <<"i","n","t">>, FALSE, NoDefault, TRUE),
         Column(<<"e","m","a","i","l">>, <<"t","e","x","t">>, TRUE, NoDefault, FALSE) >> }

\* generateTable(builder, table) on an empty builder
CallGenerateTable ==
    /\ tableBlock = <<>>
    /\ tableBlock' = generateTable(<<>>, tableIn)
    /\ renders' = renders + 1
    /\ UNCHANGED <<column, columnLine, tableIn, reference, referenceLine>>
    /\ UNCHANGED <<genVars, fkVars, inVars, tmVars, cfVars, ptVars>>

InitTable ==
    /\ PtIdle
    /\ CfIdle
    /\ schema = Schema(<<>>)
    /\ GenIdle
    /\ FkIdle
    /\ InIdle
    /\ TmIdle
    /\ column = Column(<<>>, <<>>, FALSE, <<>>, FALSE)
    /\ columnLine = <<>>
    /\ tableIn \in
          { Table(<<"u","s","e","r","s">>, schemaName, columns, <<>>, indexes, <<>>) :
              schemaName \in TableSchemas,
              columns \in TableColumns,
              indexes \in SeqsUpTo(IndexPool, MaxIndexes) }
    /\ tableBlock = <<>>
    /\ reference = Reference(<<>>, <<>>, <<>>, <<>>, <<>>, <<>>, <<>>, <<>>)
    /\ referenceLine = <<>>
    /\ renders = 0

NextTable == CallGenerateTable

SpecTable == InitTable /\ [][NextTable]_vars

----------------------------------------------------------------------------
(* The calls of generateReference *)

ReferenceColumns == {<<>>, << <<"a">> >>, << <<"a">>, <<"b">> >>}

ReferenceActions == {<<>>, NoAction, Cascade, SetNull, <<"n","o"," ","a","c","t","i","o","n">>}

\* generateReference(builder, ref) on an empty builder
CallGenerateReference ==
    /\ referenceLine = <<>>
    /\ referenceLine' = generateReference(<<>>, reference)
    /\ renders' = renders + 1
    /\ UNCHANGED <<column, columnLine, tableIn, tableBlock, reference>>
    /\ UNCHANGED <<genVars, fkVars, inVars, tmVars, cfVars, ptVars>>

InitReference ==
    /\ PtIdle
    /\ CfIdle
    /\ schema = Schema(<<>>)
    /\ GenIdle
    /\ FkIdle
    /\ InIdle
    /\ TmIdle
    /\ column = Column(<<>>, <<>>, FALSE, <<>>, FALSE)
    /\ columnLine = <<>>
    /\ tableIn = Table(<<>>, <<>>, <<>>, <<>>, <<>>, <<>>)
    /\ tableBlock = <<>>
    /\ reference \in
          { Reference(<<"o","r","d","e","r","s">>, fromS, fromCols, <<"i","t","e","m","s">>, <<"p","u","b","l","i","c">>, toCols,
                      onDelete, onUpdate) :
              fromS \in {<<"p","u","b","l","i","c">>, <<"s","a","l","e","s">>},
              fromCols \in ReferenceColumns,
              toCols \in ReferenceColumns,
              onDelete \in ReferenceActions,
              onUpdate \in ReferenceActions }
    /\ referenceLine = <<>>
    /\ renders = 0

NextReference == CallGenerateReference

SpecReference == InitReference /\ [][NextReference]_vars

----------------------------------------------------------------------------
(* The names of the tables in the header of a table and in a Ref line *)

NameSchemas == {<<>>, <<"p","u","b","l","i","c">>, <<"a","u","t","h">>, <<"P","u","b","l","i","c">>, <<"P","U","B","L","I","C">>}

NameTables == {<<"u","s","e","r","s">>, <<"p","o","s","t","s">>}

InitNames ==
    /\ PtIdle
    /\ CfIdle
    /\ schema = Schema(<<>>)
    /\ GenIdle
    /\ FkIdle
    /\ InIdle
    /\ TmIdle
    /\ column = Column(<<>>, <<>>, FALSE, <<>>, FALSE)
    /\ columnLine = <<>>
    /\ tableIn \in
          { Table(name, schemaName, <<>>, <<>>, <<>>, <<>>) :
              name \in NameTables, schemaName \in NameSchemas }
    /\ tableBlock = <<>>
    /\ reference \in
          { Reference(fromT, fromS, << <<"a">> >>, toT, toS, << <<"b">> >>,
                      <<>>, <<>>) :
              fromT \in NameTables, fromS \in NameSchemas,
              toT \in NameTables, toS \in NameSchemas }
    /\ referenceLine = <<>>
    /\ renders = 0

NextNames ==
    \/ CallGenerateTable
    \/ CallGenerateReference

SpecNames == InitNames /\ [][NextNames]_vars

----------------------------------------------------------------------------
(* The calls on a *Schema that may be nil *)

\* The call has returned or panicked: a panic ends the program.
Running == panicked = {}

\* output, err := generator.Generate(schemaPtr)
CallGenerateOnPointer ==
    /\ Running
    /\ calls = 0
    /\ IF NilDereference(schemaPtr)
       THEN /\ panicked' = {"Generate"}
            /\ UNCHANGED <<out, calls>>
       ELSE /\ out' = Generate(schemaPtr[1])
            /\ calls' = calls + 1
            /\ UNCHANGED panicked
    /\ UNCHANGED <<schema, prevOut, pending, perm, excluded, filtered>>
    /\ UNCHANGED <<schemaPtr, dbml, generateErr>>
    /\ UNCHANGED <<fkVars, inVars, tmVars, rnVars, cfVars>>

\* filtered := schema.FilterTables(schemaPtr, excludeTables)
CallFilterTablesOnPointer ==
    /\ Running
    /\ filtered = <<>>
    /\ \E excludeTables \in ExcludeLists :
          /\ excluded' = excludeTables
          /\ IF NilDereference(schemaPtr)
             THEN /\ panicked' = {"schema.FilterTables"}
                  /\ UNCHANGED filtered
             ELSE /\ filtered' = << FilterTables(schemaPtr[1], excludeTables) >>
                  /\ UNCHANGED panicked
    /\ UNCHANGED <<schema, out, prevOut, calls, pending, perm>>
    /\ UNCHANGED <<schemaPtr, dbml, generateErr>>
    /\ UNCHANGED <<fkVars, inVars, tmVars, rnVars, cfVars>>

\* filtered := dbml.FilterTables(schemaPtr, excludeTables)
CallDbmlFilterTablesOnPointer ==
    /\ Running
    /\ filtered = <<>>
    /\ \E excludeTables \in ExcludeLists :
          /\ excluded' = excludeTables
          /\ IF NilDereference(schemaPtr)
             THEN /\ panicked' = {"dbml.FilterTables"}
                  /\ UNCHANGED filtered
             ELSE /\ filtered' =
                        << dbml_FilterTables(schemaPtr[1], excludeTables) >>
                  /\ UNCHANGED panicked
    /\ UNCHANGED <<schema, out, prevOut, calls, pending, perm>>
    /\ UNCHANGED <<schemaPtr, dbml, generateErr>>
    /\ UNCHANGED <<fkVars, inVars, tmVars, rnVars, cfVars>>

InitPointer ==
    /\ schema = Schema(<<>>)
    /\ GenIdle
    /\ RnIdle
    /\ FkIdle
    /\ InIdle
    /\ TmIdle
    /\ CfIdle
    /\ schemaPtr \in
          {<<>>} \cup {<< Schema(ts) >> : ts \in SeqsUpTo(TablePool, MaxTables)}
    /\ panicked = {}
    /\ dbml = <<>>
    /\ generateErr = <<>>

NextPointer ==
    \/ CallGenerateOnPointer
    \/ CallFilterTablesOnPointer
    \/ CallDbmlFilterTablesOnPointer

SpecPointer == InitPointer /\ [][NextPointer]_vars

----------------------------------------------------------------------------
(* Claims on the generator and the filter *)

ScenarioSchema == Schema(<<users, posts>>)

UsersBlock ==
    <<"T","a","b","l","e"," ","u","s","e","r","s"," ","{","\n">>
    \o <<" "," ","e","m","a","i","l"," ","v","a","r","c","h","a","r","(","2","5","5",")"," ","[","n","o","t"," ","n","u","l","l","]","\n">>
    \o <<" "," ","i","d"," ","i","n","t"," ","[","p","k","]","\n">>
    \o <<" "," ","n","a","m","e"," ","v","a","r","c","h","a","r","(","1","0","0",")","\n">>
    \o <<"\n">>
    \o <<" "," ","i","n","d","e","x","e","s"," ","{","\n">>
    \o <<" "," "," "," ","(","e","m","a","i","l",")"," ","[","u","n","i","q","u","e","]","\n">>
    \o <<" "," ","}","\n">>
    \o <<"}","\n">>

PostsBlock ==
    <<"T","a","b","l","e"," ","p","o","s","t","s"," ","{","\n">>
    \o <<" "," ","i","d"," ","i","n","t"," ","[","p","k","]","\n">>
    \o <<" "," ","u","s","e","r","_","i","d"," ","i","n","t"," ","[","n","o","t"," ","n","u","l","l","]","\n">>
    \o <<"}","\n">>

RefLine == <<"R","e","f",":"," ","p","o","s","t","s",".","u","s","e","r","_","i","d"," ",">"," ","u","s","e","r","s",".","i","d"," ","[","d","e","l","e","t","e",":"," ","c","a","s","c","a","d","e","]","\n">>

BlankLine == <<"\n">>

UsersFirstText == UsersBlock \o BlankLine \o PostsBlock \o BlankLine \o RefLine

PostsFirstText == PostsBlock \o BlankLine \o UsersBlock \o BlankLine \o RefLine

GeneratedScenario == calls >= 1 /\ pending = {} /\ schema = ScenarioSchema

OrderKinds == {"tables", "columns", "indexes"}

\* No two tables share (Schema, Name); in no table do two columns share a
\* name or two indexes share a name.
DistinctSortKeys(s) ==
    /\ \A i, j \in DOMAIN s.Tables :
          (s.Tables[i].Schema = s.Tables[j].Schema
             /\ s.Tables[i].Name = s.Tables[j].Name) => i = j
    /\ \A t \in DOMAIN s.Tables :
          /\ \A i, j \in DOMAIN s.Tables[t].Columns :
                s.Tables[t].Columns[i].Name = s.Tables[t].Columns[j].Name
                   => i = j
          /\ \A i, j \in DOMAIN s.Tables[t].Indexes :
                s.Tables[t].Indexes[i].Name = s.Tables[t].Indexes[j].Name
                   => i = j

KeptPositions ==
    {i \in DOMAIN schema.Tables :
        \A j \in DOMAIN excluded : excluded[j] # schema.Tables[i].Name}

\* C7: FilterTables returns the tables whose bare Name is no element of the
\* exclude list (compared byte for byte), in their original relative order,
\* and the kept and the removed tables add up to the tables of the input.
C7_FilterTables ==
    filtered # <<>> =>
        LET kept == filtered[1].Tables
            removed == DOMAIN schema.Tables \ KeptPositions
        IN  /\ Len(kept) = Cardinality(KeptPositions)
            /\ Len(kept) + Cardinality(removed) = Len(schema.Tables)
            /\ \A k \in DOMAIN kept :
                  \E i \in KeptPositions :
                     /\ Cardinality({m \in KeptPositions : m < i}) = k - 1
                     /\ kept[k] = schema.Tables[i]

\* A kept table whose name differs from an excluded name in letter case
\* only, next to a removed one.
C7_Witness ==
    /\ filtered # <<>>
    /\ Len(schema.Tables) = 2
    /\ Len(filtered[1].Tables) = 1
    /\ \E j \in DOMAIN excluded :
          /\ excluded[j] # filtered[1].Tables[1].Name
          /\ ToLower(excluded[j]) = ToLower(filtered[1].Tables[1].Name)

C4_ReferenceOrderIrrelevant ==
    (calls >= 2 /\ perm = {"references"}) => out = prevOut

\* A column line with the attribute list attributes: the name, the type,
\* the bracketed list unless it is empty, and the end of the line.
ColumnLineWith(attributes) ==
    <<" "," ">> \o column.Name \o <<" ">> \o column.Type
      \o (IF attributes = <<>> THEN <<>>
          ELSE <<" ","[">> \o Join(attributes, <<","," ">>) \o <<"]">>)
      \o <<"\n">>

\* The attributes a default expression can add: none, increment, or a
\* default attribute.
DefaultAttributes ==
    {<<>>, << <<"i","n","c","r","e","m","e","n","t">> >>}
      \cup {<< <<"d","e","f","a","u","l","t",":"," ",Backtick>> \o v \o <<Backtick>> >> : v \in DefaultValuePool}

BeginsWith(s, start) ==
    /\ Len(s) >= Len(start)
    /\ \A i \in DOMAIN start : s[i] = start[i]

\* C15: a column with a default expression gets exactly one of increment
\* (the expression begins with nextval( ) and default: `expression` with
\* the expression as it is, after the pk and not null attributes; a column
\* without a default expression gets neither.
C15_IncrementOrDefault ==
    renders >= 1 =>
        \E first \in {<<>>, << <<"p","k">> >>, << <<"n","o","t"," ","n","u","l","l">> >>} :
           columnLine =
              ColumnLineWith(
                 first
                 \o (IF column.DefaultValue = <<>> THEN <<>>
                     ELSE IF BeginsWith(column.DefaultValue[1], <<"n","e","x","t","v","a","l","(">>)
                          THEN << <<"i","n","c","r","e","m","e","n","t">> >>
                          ELSE << <<"d","e","f","a","u","l","t",":"," ",Backtick>> \o column.DefaultValue[1]
                                    \o <<Backtick>> >>))

\* The default expression of a serial column.
C15_Witness ==
    /\ renders >= 1
    /\ column = Column(<<"i","d">>, <<"i","n","t">>, FALSE,
                       << <<"n","e","x","t","v","a","l","(","'","u","s","e","r","s","_","i","d","_","s","e","q","'",":",":","r","e","g","c","l","a","s","s",")">> >>, FALSE)
    /\ columnLine = <<" "," ","i","d"," ","i","n","t"," ","[","n","o","t"," ","n","u","l","l",","," ","i","n","c","r","e","m","e","n","t","]","\n">>

----------------------------------------------------------------------------
(* Claims on getForeignKeys *)

\* The tuple the rows of one foreign-key column pair share.
RowTuple(row) ==
    <<fkTable.Schema, fkTable.Name, row.column_name,
      row.foreign_table_schema, row.foreign_table_name,
      row.foreign_column_name>>

ReferenceTuple(ref) ==
    <<ref.FromSchema, ref.FromTable, ref.FromColumns[1],
      ref.ToSchema, ref.ToTable, ref.ToColumns[1]>>

\* The positions of the rows that share the tuple of row i.
SameTuple(i) ==
    {j \in DOMAIN fkRows : RowTuple(fkRows[j]) = RowTuple(fkRows[i])}

\* The positions of the References returned for the tuple of row i.
MergedFor(i) ==
    {k \in DOMAIN references :
        ReferenceTuple(references[k]) = RowTuple(fkRows[i])}

\* references is what getForeignKeys returned for fkRows.
Returned == fkCalls >= 1 /\ ~fkPending

\* The column pairs of the rows: a column of the table and the column it
\* refers to.
ColumnPairs ==
    {<<fkRows[i].column_name, fkRows[i].foreign_table_schema,
       fkRows[i].foreign_table_name, fkRows[i].foreign_column_name>> :
          i \in DOMAIN fkRows}

C5_RowOrderIrrelevant ==
    (fkCalls >= 2 /\ fkPerm) => references = prevReferences

FirstDeclared(i, rule) ==
    LET declared == {j \in SameTuple(i) : fkRows[j][rule] # NoAction}
    IN  IF declared = {} THEN NoAction
        ELSE fkRows[CHOOSE j \in declared : \A m \in declared : j <= m][rule]

C24_MergedByTuple ==
    Returned =>
        /\ \A i \in DOMAIN fkRows : Cardinality(MergedFor(i)) = 1
        /\ Len(references) =
              Cardinality({RowTuple(fkRows[i]) : i \in DOMAIN fkRows})

----------------------------------------------------------------------------
(* Claims on the type mapper *)

\* The base type is a key of DefaultTypeMappings, letter case aside.
Listed == ToLower(dataType) \in DOMAIN DefaultTypeMappings

\* C10: for a base type that is listed in DefaultTypeMappings, letter case
\* aside, MapPostgreSQLTypeToDBML returns the token of the table whatever
\* the UDT name is: token(length) for varchar and char exactly when the
\* length hint is valid, decimal(precision,scale) exactly when the precision
\* and the scale hint are both valid, and the bare token otherwise.
C10_DefaultMappings ==
    (mapCalls >= 1 /\ Listed) =>
        LET token == DefaultTypeMappings[ToLower(dataType)]
        IN  mapped =
              CASE token \in {<<"v","a","r","c","h","a","r">>, <<"c","h","a","r">>} /\ charMaxLength.Valid
                     -> token \o <<"(">> \o FormatInt(charMaxLength.Int64) \o <<")">>
                [] token = <<"d","e","c","i","m","a","l">> /\ numericPrecision.Valid
                       /\ numericScale.Valid
                     -> token \o <<"(">> \o FormatInt(numericPrecision.Int64)
                          \o <<",">> \o FormatInt(numericScale.Int64) \o <<")">>
                [] OTHER -> token

\* character varying, written with a leading capital, with length 255 and
\* hints for a numeric type next to it.
C10_Witness ==
    /\ mapCalls >= 1
    /\ dataType = <<"C","h","a","r","a","c","t","e","r"," ","v","a","r","y","i","n","g">>
    /\ udtName = <<"_","i","n","t","4">>
    /\ charMaxLength = NullInt64(255, TRUE)
    /\ numericPrecision = NullInt64(10, TRUE)
    /\ numericScale = NullInt64(2, TRUE)
    /\ mapped = <<"v","a","r","c","h","a","r","(","2","5","5",")">>

\* The base type is user-defined or array, letter case aside.
CustomOrArray == ToLower(dataType) \in {<<"u","s","e","r","-","d","e","f","i","n","e","d">>, <<"a","r","r","a","y">>}

C12_UnknownTypePassesThrough ==
    (mapCalls >= 1 /\ ~Listed /\ ~CustomOrArray) => mapped = dataType

\* Money, with a capital letter, next to valid hints.
C12_Witness ==
    /\ mapCalls >= 1
    /\ dataType = <<"M","o","n","e","y">>
    /\ charMaxLength.Valid
    /\ numericPrecision.Valid
    /\ numericScale.Valid
    /\ mapped = <<"M","o","n","e","y">>

\* The keys of the override map that equal the name, letter case aside.
OverrideKeys(name) ==
    IF mapper[1].CustomMappings = <<>> THEN {}
    ELSE {k \in DOMAIN mapper[1].CustomMappings[1] : ToLower(k) = ToLower(name)}

\* C13: MapType returns the value of an override key that equals the base
\* type, letter case aside (of the key as of the name); failing that the
\* value of a key that equals the UDT name, letter case aside; failing that
\* (a nil map too) what the default mapper returns.
C13_OverridesIgnoreCase ==
    (mapCalls >= 1 /\ mapper # <<>>) =>
        IF OverrideKeys(dataType) # {}
        THEN \E k \in OverrideKeys(dataType) :
                mapped = mapper[1].CustomMappings[1][k]
        ELSE IF OverrideKeys(udtName) # {}
             THEN \E k \in OverrideKeys(udtName) :
                     mapped = mapper[1].CustomMappings[1][k]
             ELSE mapped = MapPostgreSQLTypeToDBML(dataType, udtName,
                              charMaxLength, numericPrecision, numericScale)

----------------------------------------------------------------------------
(* Claims on introspect.Database *)

\* The text part occurs in the text s.
Contains(s, part) ==
    \E i \in 0..(Len(s) - Len(part)) : SubSeq(s, i + 1, i + Len(part)) = part

\* C9: once a catalog query has failed (the schema enumeration, the table
\* list of a schema, or the columns, primary keys, indexes or foreign keys
\* of a table), Database has returned a nil Schema and an error that wraps
\* the cause and names the operation and the schema and table of the failed
\* query; the failed query is the last query issued: it is not issued again
\* and no query follows it.
C9_AbortOnFailure ==
    failure # <<>> =>
        LET failed == failure[1].query
        IN  /\ pc = "return"
            /\ ret.schema = <<>>
            /\ ret.err # <<>>
            /\ ret.err[1].Unwrap = << failure[1].cause >>
            /\ Contains(ret.err[1].Error, failure[1].cause.Error)
            /\ Contains(ret.err[1].Error, failed.op)
            /\ failed.op # <<"s","c","h","e","m","a","s">>
                 => Contains(ret.err[1].Error, failed.schema)
            /\ failed.op \notin {<<"s","c","h","e","m","a","s">>, <<"t","a","b","l","e","s">>}
                 => Contains(ret.err[1].Error,
                             failed.schema \o <<".">> \o failed.table)
            /\ Len(queries) = failure[1].at
            /\ queries[Len(queries)] = failed

\* The foreign-key query of the second table of the second schema fails
\* when result holds the tables introspected before it.
C9_Witness ==
    /\ failure # <<>>
    /\ failure[1].query = Query(<<"f","o","r","e","i","g","n"," ","k","e","y","s">>, <<"p","u","b","l","i","c">>, <<"u","s","e","r","s">>)
    /\ schemaNames = << <<"a","u","t","h">>, <<"p","u","b","l","i","c">> >>
    /\ Len(result.Tables) = 2
    /\ ret.schema = <<>>
    /\ ret.err # <<>>
    /\ pc = "return"

----------------------------------------------------------------------------
(* Claims on generateTable *)

\* The text s ends with the text tail.
EndsWith(s, tail) ==
    /\ Len(s) >= Len(tail)
    /\ SubSeq(s, Len(s) - Len(tail) + 1, Len(s)) = tail

\* The line of an index: the bare column name when the index is not
\* unique and has one column, else the parenthesized list of its columns;
\* [unique] at the end when the index is unique.
IndexLineOf(index) ==
    <<" "," "," "," ">>
      \o (IF ~index.Unique /\ Len(index.Columns) = 1
          THEN index.Columns[1]
          ELSE <<"(">> \o Join(index.Columns, <<","," ">>) \o <<")">>)
      \o (IF index.Unique THEN <<" ","[","u","n","i","q","u","e","]">> ELSE <<>>)
      \o <<"\n">>

\* The orders of the indexes in which no name comes before a smaller name.
AscendingOrders(indexes) ==
    {p \in [DOMAIN indexes -> DOMAIN indexes] :
        /\ \A i, j \in DOMAIN indexes : p[i] = p[j] => i = j
        /\ \A i, j \in DOMAIN indexes :
              i < j => ~StrLess(indexes[p[j]].Name, indexes[p[i]].Name)}

\* The indexes block with one line an index, in the order p.
IndexesBlockOf(indexes, p) ==
    LET F[i \in 0..Len(indexes)] ==
            IF i = 0 THEN <<" "," ","i","n","d","e","x","e","s"," ","{","\n">>
            ELSE F[i - 1] \o IndexLineOf(indexes[p[i]])
    IN  F[Len(indexes)] \o <<" "," ","}","\n">>

----------------------------------------------------------------------------
(* Claims on the names of tables and on generateReference *)

\* The name of a table as it is written: schema.table when the schema is
\* neither empty nor public, else the name of the table alone.
WrittenName(schemaName, tableName) ==
    IF schemaName = <<>> \/ schemaName = <<"p","u","b","l","i","c">>
    THEN tableName
    ELSE schemaName \o <<".">> \o tableName

\* C17: the header of a table block and both sides of a Ref line write the
\* name of a table as schema.table exactly when the schema is neither empty
\* nor public, and as the name of the table alone otherwise.
C17_QualifiedNames ==
    /\ tableBlock # <<>> =>
          tableBlock =
              <<"T","a","b","l","e"," ">> \o WrittenName(tableIn.Schema, tableIn.Name)
                \o <<" ","{","\n","}","\n">>
    /\ referenceLine # <<>> =>
          referenceLine =
              <<"R","e","f",":"," ">>
                \o WrittenName(reference.FromSchema, reference.FromTable)
                \o <<".","a"," ",">"," ">>
                \o WrittenName(reference.ToSchema, reference.ToTable)
                \o <<".","b","\n">>

\* A table of schema auth and a reference of a table without schema to a
\* table of schema Public, both written.
C17_Witness ==
    /\ tableIn.Schema = <<"a","u","t","h">>
    /\ tableBlock = <<"T","a","b","l","e"," ","a","u","t","h",".","u","s","e","r","s"," ","{","\n","}","\n">>
    /\ reference.FromSchema = <<>>
    /\ reference.ToSchema = <<"P","u","b","l","i","c">>
    /\ referenceLine = <<"R","e","f",":"," ","p","o","s","t","s",".","a"," ",">"," ","P","u","b","l","i","c",".","u","s","e","r","s",".","b","\n">>

\* A side of a Ref line: table.column for one column, table.(c1, c2) for
\* more than one, the columns in stored order.
SideOf(schemaName, tableName, columns) ==
    LET C[i \in 1..Len(columns)] ==
            IF i = 1 THEN columns[1] ELSE C[i - 1] \o <<","," ">> \o columns[i]
    IN  WrittenName(schemaName, tableName) \o <<".">>
          \o (IF Len(columns) = 1 THEN columns[1]
              ELSE <<"(">> \o C[Len(columns)] \o <<")">>)

\* C18: a reference with at least one column on each side is written as one
\* line Ref: <source> > <target>, each side being table.column when the
\* side has one column and table.(c1, c2) in stored order when it has more,
\* whatever the other side is; after the target comes the end of the line
\* or the bracketed list.
C18_ReferenceSides ==
    (renders >= 1 /\ reference.FromColumns # <<>> /\ reference.ToColumns # <<>>) =>
        LET start == <<"R","e","f",":"," ">>
                       \o SideOf(reference.FromSchema, reference.FromTable,
                                 reference.FromColumns)
                       \o <<" ",">"," ">>
                       \o SideOf(reference.ToSchema, reference.ToTable,
                                 reference.ToColumns)
            rest == SubSeq(referenceLine, Len(start) + 1, Len(referenceLine))
        IN  /\ BeginsWith(referenceLine, start)
            /\ \/ rest = <<"\n">>
               \/ BeginsWith(rest, <<" ","[">>) /\ EndsWith(rest, <<"]","\n">>)
            /\ \A i \in 1..(Len(referenceLine) - 1) : referenceLine[i] # "\n"

\* A composite source referring to a one-column target.
C18_Witness ==
    /\ renders >= 1
    /\ reference.FromColumns = << <<"a">>, <<"b">> >>
    /\ reference.ToColumns = << <<"a">> >>
    /\ reference.FromSchema = <<"s","a","l","e","s">>
    /\ BeginsWith(referenceLine, <<"R","e","f",":"," ","s","a","l","e","s",".","o","r","d","e","r","s",".","(","a",","," ","b",")"," ",">"," ","i","t","e","m","s",".","a">>)

\* The lower-case form of the rules of the pool.
LowerRule(rule) ==
    CASE rule = Cascade -> <<"c","a","s","c","a","d","e">>
      [] rule = SetNull -> <<"s","e","t"," ","n","u","l","l">>
      [] rule = <<"n","o"," ","a","c","t","i","o","n">> -> <<"n","o"," ","a","c","t","i","o","n">>
      [] OTHER -> rule

\* A rule is written when it is neither empty nor NO ACTION.
Written(rule) == rule # <<>> /\ rule # <<"N","O"," ","A","C","T","I","O","N">>

\* C19: after the target of a Ref line comes [delete: <rule>] when only
\* OnDelete is written, [update: <rule>] when only OnUpdate is, [delete:
\* <rule>, update: <rule>] when both are, the rules in lower case, and the
\* end of the line without brackets when neither is; a rule is written
\* exactly when it is neither empty nor NO ACTION.
C19_ReferenceActions ==
    renders >= 1 =>
        LET del == IF Written(reference.OnDelete)
                   THEN <<"d","e","l","e","t","e",":"," ">> \o LowerRule(reference.OnDelete) ELSE <<>>
            upd == IF Written(reference.OnUpdate)
                   THEN <<"u","p","d","a","t","e",":"," ">> \o LowerRule(reference.OnUpdate) ELSE <<>>
            attrs == IF del # <<>> /\ upd # <<>> THEN del \o <<","," ">> \o upd
                     ELSE del \o upd
        IN  IF attrs = <<>>
            THEN /\ EndsWith(referenceLine, <<"\n">>)
                 /\ ~Contains(referenceLine, <<"[">>)
                 /\ ~Contains(referenceLine, <<"d","e","l","e","t","e">>)
                 /\ ~Contains(referenceLine, <<"u","p","d","a","t","e">>)
            ELSE /\ EndsWith(referenceLine, <<" ","[">> \o attrs \o <<"]","\n">>)
                 /\ ~Contains(SubSeq(referenceLine, 1,
                                     Len(referenceLine) - Len(attrs) - 4),
                              <<"[">>)

\* Both rules written, in mixed case of the pool.
C19_Witness ==
    /\ renders >= 1
    /\ reference.OnDelete = SetNull
    /\ reference.OnUpdate = Cascade
    /\ EndsWith(referenceLine, <<" ","[","d","e","l","e","t","e",":"," ","s","e","t"," ","n","u","l","l",","," ","u","p","d","a","t","e",":"," ","c","a","s","c","a","d","e","]","\n">>)

----------------------------------------------------------------------------
(* Claims on the selection of the schemas *)

\* The schemas of the catalog other than the system schemas, in name order.
Enumerated ==
    SelectSeq(schemata,
              LAMBDA name : name \notin {<<"i","n","f","o","r","m","a","t","i","o","n","_","s","c","h","e","m","a">>, <<"p","g","_","c","a","t","a","l","o","g">>,
                                         <<"p","g","_","t","o","a","s","t">>, <<"p","g","_","t","e","m","p","_","1">>,
                                         <<"p","g","_","t","o","a","s","t","_","t","e","m","p","_","1">>})

\* WithAllSchemas is among the options handed to Database.
AllSchemasAsked == \E i \in DOMAIN opts : opts[i] = WithAllSchemas

\* Database has entered the loop over the schemas.
Entered == pc # "Database" /\ schemaNames # <<>>

\* C20: a call of GenerateFromConnection that returns no error of the
\* enumeration introspects the enumerated non-system schemas when
\* Config.IncludeAllSchemas is true, whatever Config.Schemas holds, else
\* Config.Schemas in the order given when that list is not empty, else (nil
\* config or empty list) public alone; and once WithAllSchemas is among the
\* options, Database ranges over the same schemas whatever the WithSchemas
\* options say and wherever they stand.
C20_SchemaSelection ==
    /\ (generated # <<>> /\ generated[1].err = <<>>) =>
          generated[1].schemaNames =
              << IF config # <<>> /\ config[1].IncludeAllSchemas
                 THEN Enumerated
                 ELSE IF config # <<>> /\ config[1].Schemas # <<>>
                 THEN config[1].Schemas
                 ELSE << <<"p","u","b","l","i","c">> >> >>
    /\ (Entered /\ AllSchemasAsked) =>
          schemaNames =
              IF Enumerated = <<>> THEN << <<"p","u","b","l","i","c">> >> ELSE Enumerated

----------------------------------------------------------------------------
(* Claims on nil and empty Schemas *)

\* The caller's Schema is nil or holds no table.
NilOrEmpty == schemaPtr = <<>> \/ schemaPtr[1].Tables = <<>>

\* C21: on a nil Schema or a Schema without tables no call panics, a call
\* of Generate returns the empty output and a call of FilterTables returns
\* a Schema without tables.
C21_NilOrEmptyCannotFail ==
    NilOrEmpty =>
        /\ panicked = {}
        /\ out = <<>>
        /\ filtered # <<>> => filtered[1] = Schema(<<>>)

----------------------------------------------------------------------------
(* Claims on the type mapper of GenerateFromConnection *)

\* The Config has a TypeMapper.
HasTypeMapper == config # <<>> /\ config[1].TypeMapper # <<>>

\* The Config has a TypeMappings map that is not empty.
HasTypeMappings ==
    /\ config # <<>>
    /\ config[1].TypeMappings # <<>>
    /\ DOMAIN config[1].TypeMappings[1] # {}

\* The type the mapper m gives to the column read.
TypeBy(m) ==
    MapType(m, dataType, udtName, charMaxLength, numericPrecision,
            numericScale)

\* C22: the type of a column is what Config.TypeMapper returns whenever it
\* is set, whatever TypeMappings holds; what a PostgreSQLTypeMapper built
\* from TypeMappings returns when TypeMapper is nil and the map is not
\* empty; what the default mapper returns when neither is set.
C22_TypeMapperPrecedence ==
    mapCalls >= 1 =>
        mapped =
            IF HasTypeMapper
            THEN TypeBy(config[1].TypeMapper[1])
            ELSE IF HasTypeMappings
            THEN TypeBy([CustomMappings |-> config[1].TypeMappings])
            ELSE MapPostgreSQLTypeToDBML(dataType, udtName, charMaxLength,
                                         numericPrecision, numericScale)

\* Both are set and disagree on citext: the TypeMapper's varchar is the
\* type, not the text of TypeMappings.
C22_Witness ==
    /\ mapCalls >= 1
    /\ HasTypeMapper
    /\ HasTypeMappings
    /\ dataType = <<"c","i","t","e","x","t">>
    /\ config[1].TypeMappings[1] = (<<"c","i","t","e","x","t">> :> <<"t","e","x","t">>)
    /\ TypeBy([CustomMappings |-> config[1].TypeMappings]) = <<"t","e","x","t">>
    /\ mapped = <<"v","a","r","c","h","a","r">>

----------------------------------------------------------------------------
(* Claims on the order of the output of Generate *)

\* The orders of the tables in which no table comes before one of a smaller
\* (schema name, table name).
TableOrders(ts) ==
    {p \in [DOMAIN ts -> DOMAIN ts] :
        /\ \A i, j \in DOMAIN ts : p[i] = p[j] => i = j
        /\ \A i, j \in DOMAIN ts :
              i < j =>
                 ~ \/ StrLess(ts[p[j]].Schema, ts[p[i]].Schema)
                   \/ /\ ts[p[j]].Schema = ts[p[i]].Schema
                      /\ StrLess(ts[p[j]].Name, ts[p[i]].Name)}

\* The column lines of the table t in the order q.
ColumnLinesIn(t, q) ==
    LET F[i \in 0..Len(t.Columns)] ==
            IF i = 0 THEN <<>>
            ELSE generateColumn(F[i - 1], t.Columns[q[i]])
    IN  F[Len(t.Columns)]

\* The blocks a table may have, each with the blank line after it: the
\* header, the column lines in an ascending order of the column names, the
\* indexes block when there is one, the closing brace.
BlockTexts(t) ==
    { <<"T","a","b","l","e"," ">> \o WrittenName(t.Schema, t.Name) \o <<" ","{","\n">>
        \o ColumnLinesIn(t, q)
        \o (IF t.Indexes = <<>> THEN <<>>
            ELSE generateIndexes(<<"\n">>, SortSlice(t.Indexes, "IndexLess")))
        \o <<"}","\n">> \o <<"\n">> :
      q \in AscendingOrders(t.Columns) }

\* The texts of the blocks of the tables ts in the order p.
TablesTexts(ts, p) ==
    LET F[i \in 0..Len(ts)] ==
            IF i = 0 THEN {<<>>}
            ELSE {a \o b : a \in F[i - 1], b \in BlockTexts(ts[p[i]])}
    IN  F[Len(ts)]

\* Generate has returned the output of the Schema the caller holds.
GeneratedNow == calls >= 1 /\ pending = {}

----------------------------------------------------------------------------
(* Claims on the Schema introspection returns *)

\* Database has returned a Schema.
SchemaReturned == pc = "return" /\ ret.schema # <<>>

\* C25: in every table of the Schema Database returns, a column has
\* IsPrimaryKey set exactly when its name is one of the PrimaryKeys of the
\* table.
C25_PrimaryKeyFlags ==
    SchemaReturned =>
        \A k \in DOMAIN ret.schema[1].Tables :
            LET t == ret.schema[1].Tables[k]
            IN  \A i \in DOMAIN t.Columns :
                   t.Columns[i].IsPrimaryKey
                      <=> \E j \in DOMAIN t.PrimaryKeys :
                             t.PrimaryKeys[j] = t.Columns[i].Name

\* The returned Schema holds public.posts, with the primary key id and the
\* columns user_id and title that are not part of it, and auth.users, whose
\* column id is no primary key.
C25_Witness ==
    /\ SchemaReturned
    /\ \E k \in DOMAIN ret.schema[1].Tables :
          LET t == ret.schema[1].Tables[k]
          IN  /\ t.Name = <<"p","o","s","t","s">>
              /\ t.PrimaryKeys = << <<"i","d">> >>
              /\ Len(t.Columns) = 3
              /\ t.Columns[1].IsPrimaryKey
              /\ ~t.Columns[2].IsPrimaryKey
    /\ \E k \in DOMAIN ret.schema[1].Tables :
          LET t == ret.schema[1].Tables[k]
          IN  /\ t.Schema = <<"a","u","t","h">>
              /\ t.PrimaryKeys = <<>>
              /\ t.Columns[1].Name = <<"i","d">>
              /\ ~t.Columns[1].IsPrimaryKey

\* C26: the Schema Database returns holds at most one Table for a pair of
\* schema name and table name, whatever the list of schema names is, a list
\* that names a schema twice included.
C26_UniqueTables ==
    SchemaReturned =>
        \A i, j \in DOMAIN ret.schema[1].Tables :
            i # j => << ret.schema[1].Tables[i].Schema, ret.schema[1].Tables[i].Name >>
                       # << ret.schema[1].Tables[j].Schema, ret.schema[1].Tables[j].Name >>

\* The pairs of schema name and table name the catalog holds for the schema
\* names, schema after schema in the order of names.
ExpectedTables(names) ==
    LET F[i \in 0..Len(names)] ==
            IF i = 0 THEN <<>>
            ELSE F[i - 1] \o [j \in DOMAIN CatalogTables(names[i]) |->
                                << names[i], CatalogTables(names[i])[j] >>]
    IN  F[Len(names)]

\* introspectSchemas has returned a Schema.
Introspection == pc = "return" /\ failure = <<>>

\* C27: when no query fails, the Tables of the Schema introspectSchemas
\* builds are the tables of the catalog, schema after schema in the order of
\* the schema names and in the order of the catalog within a schema, each
\* with its Schema field set; the Columns and the Indexes of a table are the
\* rows of the catalog in their order, none left out; without excluded
\* tables Database returns this Schema.
C27_CatalogOrderKept ==
    Introspection =>
        LET want == ExpectedTables(schemaNames)
        IN  /\ Len(result.Tables) = Len(want)
            /\ \A k \in DOMAIN want :
                  LET t == result.Tables[k]
                      columnRows == CatalogColumns(want[k][1], want[k][2])
                      indexRows == CatalogIndexes(want[k][1], want[k][2])
                  IN  /\ t.Schema = want[k][1]
                      /\ t.Name = want[k][2]
                      /\ [i \in DOMAIN t.Columns |-> t.Columns[i].Name]
                            = [i \in DOMAIN columnRows |-> columnRows[i].column_name]
                      /\ [i \in DOMAIN t.Indexes |-> t.Indexes[i].Name]
                            = [i \in DOMAIN indexRows |-> indexRows[i].indexname]
            /\ Len(o.excludeTables) = 0 => ret.schema = << result >>

\* The schemas auth and public: auth.users, then public.posts with its
\* columns id, user_id and title in the order of the catalog, then
\* public.users.
C27_Witness ==
    /\ Introspection
    /\ schemaNames = << <<"a","u","t","h">>, <<"p","u","b","l","i","c">> >>
    /\ Len(result.Tables) = 3
    /\ result.Tables[1].Schema = <<"a","u","t","h">>
    /\ result.Tables[2].Name = <<"p","o","s","t","s">>
    /\ [i \in 1..3 |-> result.Tables[2].Columns[i].Name] = << <<"i","d">>, <<"u","s","e","r","_","i","d">>, <<"t","i","t","l","e">> >>
    /\ result.Tables[2].Indexes[1].Name = <<"i","d","x","_","p","o","s","t","s","_","t","i","t","l","e">>
    /\ result.Tables[3].Name = <<"u","s","e","r","s">>
    /\ ret.schema = << result >>

----------------------------------------------------------------------------
(* Claims on the References of a filtered Schema *)

\* The tables of the Schema of the caller that the filter has to keep, in
\* their order.
KeptTables ==
    LET F[i \in 0..Len(schema.Tables)] ==
            IF i = 0 THEN <<>>
            ELSE IF i \in KeptPositions THEN Append(F[i - 1], schema.Tables[i])
            ELSE F[i - 1]
    IN  F[Len(schema.Tables)]

\* The number of References the tables ts hold.
ReferenceCount(ts) ==
    LET F[i \in 0..Len(ts)] ==
            IF i = 0 THEN 0 ELSE F[i - 1] + Len(ts[i].References)
    IN  F[Len(ts)]

\* The number of Ref lines of the text.
RefLineCount(text) ==
    Cardinality({i \in 1..(Len(text) - 4) : SubSeq(text, i, i + 4) = <<"R","e","f",":"," ">>})

\* Generate has returned the text of the filtered Schema.
GeneratedFiltered == calls >= 1 /\ filtered # <<>>

\* C29: FilterTables hands the kept tables on as they are, References
\* included: Generate on the filtered Schema writes the Ref line of every
\* Reference of a kept table, also when its target was removed, and no Ref
\* line from a removed table; the Ref lines are as many as the kept tables
\* hold References.
C29_ReferencesOfKeptTables ==
    GeneratedFiltered =>
        /\ filtered[1].Tables = KeptTables
        /\ RefLineCount(out) = ReferenceCount(KeptTables)
        /\ \A k \in DOMAIN KeptTables :
              \A r \in DOMAIN KeptTables[k].References :
                 LET ref == KeptTables[k].References[r]
                 IN  (ref.FromColumns # <<>> /\ ref.ToColumns # <<>>) =>
                        Contains(out,
                            <<"R","e","f",":"," ">>
                              \o SideOf(ref.FromSchema, ref.FromTable, ref.FromColumns)
                              \o <<" ",">"," ">>
                              \o SideOf(ref.ToSchema, ref.ToTable, ref.ToColumns))
        /\ \A i \in DOMAIN schema.Tables :
              i \notin KeptPositions =>
                 ~Contains(out,
                     <<"R","e","f",":"," ">> \o WrittenName(schema.Tables[i].Schema,
                                              schema.Tables[i].Name) \o <<".">>)

\* posts is kept and users, the target of its Reference, is removed: the
\* text has the block of posts, no block of users and the Ref line.
C29_Witness ==
    /\ GeneratedFiltered
    /\ schema.Tables = <<users, posts>>
    /\ excluded = << <<"u","s","e","r","s">> >>
    /\ filtered[1].Tables = <<posts>>
    /\ ~Contains(out, <<"T","a","b","l","e"," ","u","s","e","r","s">>)
    /\ EndsWith(out, <<"R","e","f",":"," ","p","o","s","t","s",".","u","s","e","r","_","i","d"," ",">"," ","u","s","e","r","s",".","i","d"," ","[","d","e","l","e","t","e",":"," ","c","a","s","c","a","d","e","]">> \o <<"\n">>)

----------------------------------------------------------------------------
(* Claims on the two formatters *)

\* Both formatters have returned the text of the Schema.
BothFormatted == calls >= 1 /\ dbml # <<>>

\* C30: for every Schema the bytes generator.Generate returns, with a nil
\* error, are the text GenerateDBML of the root package returns for the same
\* tables; GenerateString returns the same text and GenerateDBMLBytes the
\* same bytes.
C30_FormattersAgree ==
    BothFormatted => (out = dbml[1] /\ generateErr = <<>>)

\* sales.orders and users: a qualified name, columns with attributes, an
\* index and two References, in the text of both formatters.
C30_Witness ==
    /\ BothFormatted
    /\ schema.Tables = <<salesOrders, users>>
    /\ BeginsWith(dbml[1], <<"T","a","b","l","e"," ","u","s","e","r","s"," ","{">>)
    /\ Contains(dbml[1], <<"T","a","b","l","e"," ","s","a","l","e","s",".","o","r","d","e","r","s"," ","{">>)
    /\ Contains(dbml[1], <<" "," ","e","m","a","i","l"," ","v","a","r","c","h","a","r","(","2","5","5",")"," ","[","n","o","t"," ","n","u","l","l","]">>)
    /\ Contains(dbml[1], <<" "," "," "," ","(","e","m","a","i","l",")"," ","[","u","n","i","q","u","e","]">>)
    /\ EndsWith(out, <<"R","e","f",":"," ","s","a","l","e","s",".","o","r","d","e","r","s",".","b"," ",">"," ","i","t","e","m","s",".","x">> \o <<"\n">>)
====
